---- MODULE Spec2Model ----
(***************************************************************************)
(* A model of the medical-compliance RAG repository:                       *)
(*   - RAGSystem.query and batch_query (src/src/rag_system.py): retrieve,  *)
(*     build the prompt, generate, write the audit entry, return;          *)
(*   - AuditLogger (src/src/audit_logger.py): the JSONL audit log and the  *)
(*     operations reading it;                                              *)
(*   - DocumentRegistry (src/src/document_registry.py) and                 *)
(*     AccessControlSystem (src/src/access_control.py);                    *)
(*   - ComplianceDashboard (src/src/compliance_dashboard.py);              *)
(*   - DocumentChunker.chunk_text and process_documents                    *)
(*     (src/src/chunker.py).                                               *)
(* The specifications share the variables:                                 *)
(*   Spec          the orchestrator's query path on one audit log,         *)
(*   SpecFair      the same path, a started query running to its end,      *)
(*   SpecStore     the query path over any answer of the injected store,   *)
(*   SpecBatch     the orchestrator answering batches of questions,        *)
(*   SpecAudit     the AuditLogger operations and the two log syncs,       *)
(*   SpecWriters   log_query calls of several instances interleaved,       *)
(*   SpecCtor      constructions and log_query calls on one log file,      *)
(*   SpecRegistry  the DocumentRegistry operations,                        *)
(*   SpecShared    two DocumentRegistry instances on one registry file,    *)
(*   SpecAccess    the AccessControlSystem operations,                     *)
(*   SpecDash      generate_executive_summary over bounded stores,         *)
(*   SpecChunk     chunk_text applied to bounded documents,                *)
(*   SpecDocs      process_documents applied to bounded document lists.    *)
(***************************************************************************)
EXTENDS Integers, Sequences, FiniteSets, TLC

(***************************************************************************)
(* Bounds of the model.                                                    *)
(***************************************************************************)
MaxQueries == 2      \* query calls (Spec) / log_query calls (SpecAudit)
MaxDay == 1          \* the clock runs over days 0..MaxDay
MaxDays == 1         \* window lengths 0..MaxDays given to get_statistics
MaxLimit == 1        \* limits 0..MaxLimit given to get_logs / search_queries
MaxPieces == 4       \* sentences of a document given to chunk_text
MaxTok == 2          \* tokens of one sentence
MaxChunkSize == 3    \* chunk_size runs over 1..MaxChunkSize
MaxRefs == 2         \* update_reference_count keeps |times_referenced| <= MaxRefs
MaxQueryCount == 2   \* update_last_active stops at query_count = MaxQueryCount
MaxEntries == 3      \* entries of the log the dashboard reads (SpecDash)
MaxDashUsers == 3    \* users of the store the dashboard reads (SpecDash)
MaxSaves == 3        \* _save calls of the instances together (SpecShared)
MaxDocs == 2         \* documents in one process_documents call (SpecDocs)

VARIABLES
    \* ---- RAGSystem: one orchestrator and the query it is executing
    enable_audit,      \* RAGSystem.enable_audit
    indexed,           \* chunks held by the vector index (static at query time)
    pc,                \* position of the orchestrator inside query
    question,          \* query's argument question
    user_id,           \* query's argument user_id
    context_docs,      \* query's local context_docs
    context_metadata,  \* query's local context_metadata
    prompt,            \* query's local prompt
    error_msg,         \* query's local error_msg: <<>> is None, <<m>> is the text m
    source_files,      \* query's local source_files
    response,          \* query's local response
    obs,               \* what happened in the current / last query call
    calls,             \* completed query calls
    \* ---- the audit log file and the clock
    logExists,         \* the log file exists
    log,               \* its lines, oldest first
    today,             \* the date datetime.now() yields
    ret,               \* what the last operation returned (or raised)
    \* ---- the two stores synced from the log
    registry,          \* DocumentRegistry.registry['documents']
    users,             \* AccessControlSystem.users['users']
    \* ---- DocumentChunker
    text,              \* chunk_text's argument text, as its pieces
    chunk_size,        \* DocumentChunker.chunk_size
    sepTok,            \* tokens count_tokens finds per "\n\n" joining two units
    dotTok,            \* tokens count_tokens finds per ". " (or final ".")
    chunks,            \* what chunk_text returned
    cpc,               \* "input" before chunk_text has run, "done" after
    \* ---- RAGSystem.batch_query
    questions,         \* batch_query's argument questions
    batch_user,        \* batch_query's argument user_id
    results,           \* batch_query's local results
    bpc,               \* position inside batch_query
    \* ---- AuditLogger instances appending to the one log file
    wpc,               \* per instance: "idle", or "open" inside log_query;
                       \* "new" and "missing" while it is constructed
    wline,             \* per instance: the line of its current or last log_query
    written,           \* the lines of the log_query calls that have returned
    \* ---- DocumentRegistry instances opened on the one registry file
    rmem,              \* per instance: None before construction, else its
                       \* in-memory registry['documents']
    rsaved,            \* the mutations saved so far: who saved which document
    \* ---- DocumentChunker.process_documents
    documents,         \* process_documents' argument documents
    all_chunks         \* what process_documents returned

ragVars == <<enable_audit, indexed, pc, question, user_id, context_docs,
             context_metadata, prompt, error_msg, source_files, response,
             obs, calls>>
auditVars == <<logExists, log, today>>
govVars == <<registry, users>>
chunkVars == <<text, chunk_size, sepTok, dotTok, chunks, cpc>>
batchVars == <<questions, batch_user, results, bpc>>
writerVars == <<wpc, wline, written>>
sharedVars == <<rmem, rsaved>>
docVars == <<documents, all_chunks>>
otherVars == <<batchVars, writerVars, sharedVars, docVars>>
vars == <<ragVars, auditVars, ret, govVars, chunkVars, otherVars>>

(***************************************************************************)
(* Generic helpers.                                                        *)
(***************************************************************************)
Min(a, b) == IF a <= b THEN a ELSE b

IsPrefix(s, t) == Len(s) <= Len(t) /\ \A i \in 1..Len(s) : s[i] = t[i]

\* Sequences of exactly n distinct elements of S.
Arrangements(S, n) == {s \in [1..n -> S] : \A i, j \in 1..n : i # j => s[i] # s[j]}

\* Text is a sequence of pieces; an f-string concatenates its pieces.
Contains(str, piece) == \E i \in 1..Len(str) : str[i] = piece

(***************************************************************************)
(* Data of the query path.                                                 *)
(***************************************************************************)
Users == {"EMP0001", "EMP0002"}
Questions == {"Needle", "hand"}
ErrTexts == {"", "connection refused"}    \* str(e) of a raised exception
AnswerTexts == {"Wash the area"}          \* response['response'] of the backend
model_name == "llama3.1:8b"
n_results == 2                            \* the constructor's argument n_results

\* The chunks the ingestion produced: content (its text and length) and metadata.
Corpus ==
    { [doc |-> [text |-> "d1", len |-> 150],
       meta |-> [source_file |-> "a.pdf", chunk_id |-> "a.pdf_chunk_0"]],
      [doc |-> [text |-> "d2", len |-> 250],
       meta |-> [source_file |-> "b.pdf", chunk_id |-> "b.pdf_chunk_0"]] }

NoRet == [op |-> "none", kind |-> "none", val |-> [none |-> TRUE]]
NoObs == [retrieval_failed |-> FALSE, retr_error |-> <<>>,
          generation_failed |-> FALSE, gen_error |-> <<>>, gen_calls |-> 0,
          log_attempted |-> FALSE, log_failed |-> FALSE, len_at_call |-> 0]
NoResponse == [none |-> TRUE]

(***************************************************************************)
(* AuditLogger.log_query: the entry it builds and the append.              *)
(* The clock has day resolution, so timestamp and date coincide.           *)
(***************************************************************************)
LogEntry(u, q, sources, answer_generated, num_sources, error) ==
    [timestamp |-> today,
     user_id |-> u,
     query |-> q,
     sources_retrieved |-> sources,
     num_sources |-> num_sources,
     answer_generated |-> answer_generated,
     model_used |-> model_name,
     error |-> error,
     date |-> today]

\* open(log_file, 'a'); f.write(line)
AppendLine(file, entry) == Append(file, entry)

(***************************************************************************)
(* RAGSystem.query, step by step.                                          *)
(***************************************************************************)
\* Lines 130-150: the call; error_msg = None.
QueryStart(q, u) ==
    /\ pc = "idle"
    /\ calls < MaxQueries
    /\ pc' = "retrieving"
    /\ question' = q
    /\ user_id' = u
    /\ error_msg' = <<>>
    /\ context_docs' = <<>>
    /\ context_metadata' = <<>>
    /\ prompt' = <<>>
    /\ source_files' = <<>>
    /\ response' = NoResponse
    /\ obs' = [NoObs EXCEPT !.len_at_call = Len(log)]
    /\ ret' = [op |-> "query", kind |-> "pending", val |-> [none |-> TRUE]]
    /\ UNCHANGED <<enable_audit, indexed, calls, auditVars, govVars, chunkVars,
                   otherVars>>

\* What the vector store can answer: the min(n_results, count) nearest chunks,
\* in an order the embedding decides.
RetrievalResults == Arrangements(indexed, Min(n_results, Cardinality(indexed)))

\* Mutant: an empty retrieval result ends the query with a canned response,
\* without building a prompt or calling the backend.
QueryRetrieveOk_ShortCircuit(r) ==
    /\ pc = "retrieving"
    /\ context_docs' = [i \in 1..Len(r) |-> r[i].doc]
    /\ context_metadata' = [i \in 1..Len(r) |-> r[i].meta]
    /\ IF Len(r) = 0
       THEN /\ pc' = "logging"
            /\ response' = [question |-> question,
                            answer |-> <<"No relevant documents">>,
                            sources |-> <<>>,
                            model |-> model_name,
                            num_sources |-> 0]
       ELSE /\ pc' = "prompting"
            /\ UNCHANGED response
    /\ UNCHANGED <<enable_audit, indexed, question, user_id, prompt, error_msg,
                   source_files, obs, calls, auditVars, ret, govVars,
                   chunkVars, otherVars>>

\* Mutant: the prompt is not built and generation starts right after retrieval.
QueryRetrieveOk_SkipsPrompt(r) ==
    /\ pc = "retrieving"
    /\ context_docs' = [i \in 1..Len(r) |-> r[i].doc]
    /\ context_metadata' = [i \in 1..Len(r) |-> r[i].meta]
    /\ pc' = "generating"
    /\ UNCHANGED <<enable_audit, indexed, question, user_id, prompt, error_msg,
                   source_files, response, obs, calls, auditVars, ret, govVars,
                   chunkVars, otherVars>>

\* Line 155, retrieve_context returned (lines 51-56).
QueryRetrieveOk(r) ==
    /\ pc = "retrieving"
    /\ context_docs' = [i \in 1..Len(r) |-> r[i].doc]
    /\ context_metadata' = [i \in 1..Len(r) |-> r[i].meta]
    /\ pc' = "prompting"
    /\ UNCHANGED <<enable_audit, indexed, question, user_id, prompt, error_msg,
                   source_files, response, obs, calls, auditVars, ret, govVars,
                   chunkVars, otherVars>>

\* The except branch of query (lines 199-208) taken from retrieval.
ErrorResponse(q, msg) ==
    [question |-> q,
     answer |-> <<"Error processing query: ", msg>>,
     sources |-> <<>>,
     model |-> model_name,
     num_sources |-> 0]

\* Mutant: the except branch returns at once, skipping lines 210-223.
QueryRetrieveFail_NoLog(msg) ==
    /\ pc = "retrieving"
    /\ error_msg' = <<msg>>
    /\ source_files' = <<>>
    /\ response' = ErrorResponse(question, msg)
    /\ obs' = [obs EXCEPT !.retrieval_failed = TRUE, !.retr_error = <<msg>>]
    /\ ret' = [op |-> "query", kind |-> "return", val |-> ErrorResponse(question, msg)]
    /\ calls' = calls + 1
    /\ pc' = "idle"
    /\ UNCHANGED <<enable_audit, indexed, question, user_id, context_docs,
                   context_metadata, prompt, auditVars, govVars, chunkVars,
                   otherVars>>

\* Mutant: the except branch builds the response but does not capture str(e).
QueryRetrieveFail_NoCapture(msg) ==
    /\ pc = "retrieving"
    /\ error_msg' = <<>>
    /\ source_files' = <<>>
    /\ response' = ErrorResponse(question, msg)
    /\ obs' = [obs EXCEPT !.retrieval_failed = TRUE, !.retr_error = <<msg>>]
    /\ pc' = "logging"
    /\ UNCHANGED <<enable_audit, indexed, question, user_id, context_docs,
                   context_metadata, prompt, calls, auditVars, ret, govVars,
                   chunkVars, otherVars>>

\* Mutant: query without its try/except: the retrieval exception leaves query.
QueryRetrieveFail_Propagates(msg) ==
    /\ pc = "retrieving"
    /\ obs' = [obs EXCEPT !.retrieval_failed = TRUE, !.retr_error = <<msg>>]
    /\ ret' = [op |-> "query", kind |-> "raise", val |-> [error |-> msg]]
    /\ calls' = calls + 1
    /\ pc' = "idle"
    /\ UNCHANGED <<enable_audit, indexed, question, user_id, context_docs,
                   context_metadata, prompt, error_msg, source_files, response,
                   auditVars, govVars, chunkVars, otherVars>>

\* Line 155, retrieve_context raised (embedding or index failure): lines 199-208.
QueryRetrieveFail(msg) ==
    /\ pc = "retrieving"
    /\ error_msg' = <<msg>>
    /\ source_files' = <<>>
    /\ response' = ErrorResponse(question, msg)
    /\ obs' = [obs EXCEPT !.retrieval_failed = TRUE, !.retr_error = <<msg>>]
    /\ pc' = "logging"
    /\ UNCHANGED <<enable_audit, indexed, question, user_id, context_docs,
                   context_metadata, prompt, calls, auditVars, ret, govVars,
                   chunkVars, otherVars>>

\* build_prompt (lines 58-96): one labelled part per (doc, meta) pair, then the
\* question.
build_prompt(q, docs, metas) ==
    [context |-> [i \in 1..Min(Len(docs), Len(metas)) |->
                     [label |-> i, source |-> metas[i].source_file, doc |-> docs[i].text]],
     question |-> q]

\* Line 166.
QueryBuildPrompt ==
    /\ pc = "prompting"
    /\ prompt' = <<build_prompt(question, context_docs, context_metadata)>>
    /\ pc' = "generating"
    /\ UNCHANGED <<enable_audit, indexed, question, user_id, context_docs,
                   context_metadata, error_msg, source_files, response, obs,
                   calls, auditVars, ret, govVars, chunkVars, otherVars>>

\* The preview of a retrieved document (line 191), by its length.
PreviewMax == 200
EllipsisLen == 3
PreviewLen(doc) == IF doc.len > PreviewMax THEN PreviewMax + EllipsisLen ELSE doc.len

\* Lines 181-197: source_files and the response compiled from result.
CompileResponse(q, result, docs, metas) ==
    [question |-> q,
     answer |-> result.answer,
     sources |-> [i \in 1..Min(Len(docs), Len(metas)) |->
                     [file |-> metas[i].source_file,
                      chunk_id |-> metas[i].chunk_id,
                      preview_len |-> PreviewLen(docs[i])]],
     model |-> result.model,
     num_sources |-> Len(docs)]

SourceFiles(metas) == [i \in 1..Len(metas) |-> metas[i].source_file]

\* generate_answer's two returns (lines 119-122 and 124-128).
GenerateOkResult(reply) == [answer |-> <<reply>>, model |-> model_name]
GenerateFailResult(msg) ==
    [answer |-> <<"Error generating response: ", msg>>, model |-> model_name]

\* Lines 175-197, the backend answered.
QueryGenerateOk(reply) ==
    /\ pc = "generating"
    /\ source_files' = SourceFiles(context_metadata)
    /\ response' = CompileResponse(question, GenerateOkResult(reply),
                                   context_docs, context_metadata)
    /\ obs' = [obs EXCEPT !.gen_calls = @ + 1]
    /\ pc' = "logging"
    /\ UNCHANGED <<enable_audit, indexed, question, user_id, context_docs,
                   context_metadata, prompt, error_msg, calls, auditVars, ret,
                   govVars, chunkVars, otherVars>>

\* Lines 175-197, the backend raised inside generate_answer, which catches it
\* (lines 124-128) and returns the error text as the answer: query sees no
\* exception and error_msg stays None.
QueryGenerateFail(msg) ==
    /\ pc = "generating"
    /\ source_files' = SourceFiles(context_metadata)
    /\ response' = CompileResponse(question, GenerateFailResult(msg),
                                   context_docs, context_metadata)
    /\ obs' = [obs EXCEPT !.gen_calls = @ + 1, !.generation_failed = TRUE,
                          !.gen_error = <<msg>>]
    /\ pc' = "logging"
    /\ UNCHANGED <<enable_audit, indexed, question, user_id, context_docs,
                   context_metadata, prompt, error_msg, calls, auditVars, ret,
                   govVars, chunkVars, otherVars>>

\* Lines 213-223: the entry query hands to log_query.
QueryLogEntry ==
    LogEntry(user_id, question, source_files, error_msg = <<>>,
             Len(source_files), error_msg)

\* Lines 211-228 with auditing enabled and the append succeeding.
QueryLogOk ==
    /\ pc = "logging"
    /\ enable_audit
    /\ log' = AppendLine(log, QueryLogEntry)
    /\ obs' = [obs EXCEPT !.log_attempted = TRUE]
    /\ ret' = [op |-> "query", kind |-> "return", val |-> response]
    /\ calls' = calls + 1
    /\ pc' = "idle"
    /\ UNCHANGED <<enable_audit, indexed, question, user_id, context_docs,
                   context_metadata, prompt, error_msg, source_files, response,
                   logExists, today, govVars, chunkVars, otherVars>>

\* Mutant: the failed append is swallowed and the response returned.
QueryLogFail_Swallowed(msg) ==
    /\ pc = "logging"
    /\ enable_audit
    /\ obs' = [obs EXCEPT !.log_attempted = TRUE, !.log_failed = TRUE]
    /\ ret' = [op |-> "query", kind |-> "return", val |-> response]
    /\ calls' = calls + 1
    /\ pc' = "idle"
    /\ UNCHANGED <<enable_audit, indexed, question, user_id, context_docs,
                   context_metadata, prompt, error_msg, source_files, response,
                   auditVars, govVars, chunkVars, otherVars>>

\* Lines 211-223 with auditing enabled and open()/write() raising OSError:
\* log_query is outside the try block, so the exception leaves query.
QueryLogFail(msg) ==
    /\ pc = "logging"
    /\ enable_audit
    /\ obs' = [obs EXCEPT !.log_attempted = TRUE, !.log_failed = TRUE]
    /\ ret' = [op |-> "query", kind |-> "raise", val |-> [error |-> msg]]
    /\ calls' = calls + 1
    /\ pc' = "idle"
    /\ UNCHANGED <<enable_audit, indexed, question, user_id, context_docs,
                   context_metadata, prompt, error_msg, source_files, response,
                   auditVars, govVars, chunkVars, otherVars>>

\* Lines 211-228 with enable_audit = False: nothing is logged.
QueryNoAudit ==
    /\ pc = "logging"
    /\ ~enable_audit
    /\ ret' = [op |-> "query", kind |-> "return", val |-> response]
    /\ calls' = calls + 1
    /\ pc' = "idle"
    /\ UNCHANGED <<enable_audit, indexed, question, user_id, context_docs,
                   context_metadata, prompt, error_msg, source_files, response,
                   obs, auditVars, govVars, chunkVars, otherVars>>

\* datetime.now() moves to the next day.
Tick ==
    /\ today < MaxDay
    /\ today' = today + 1
    /\ UNCHANGED <<ragVars, logExists, log, ret, govVars, chunkVars,
                   otherVars>>

(***************************************************************************)
(* Values of the variables a specification does not use.                   *)
(***************************************************************************)
RagIdle ==
    /\ pc = "idle"
    /\ question = ""
    /\ user_id = ""
    /\ context_docs = <<>>
    /\ context_metadata = <<>>
    /\ prompt = <<>>
    /\ error_msg = <<>>
    /\ source_files = <<>>
    /\ response = NoResponse
    /\ obs = NoObs
    /\ calls = 0

GovEmpty ==
    /\ registry = <<>>
    /\ users = <<>>

ChunkIdle ==
    /\ text = <<>>
    /\ chunk_size = 0
    /\ sepTok = 0
    /\ dotTok = 0
    /\ chunks = <<>>
    /\ cpc = "input"

OtherIdle ==
    /\ questions = <<>>
    /\ batch_user = ""
    /\ results = <<>>
    /\ bpc = "idle"
    /\ wpc = <<>>
    /\ wline = <<>>
    /\ written = <<>>
    /\ rmem = <<>>
    /\ rsaved = <<>>
    /\ documents = <<>>
    /\ all_chunks = <<>>

(***************************************************************************)
(* Spec: one orchestrator, constructed (lines 26-33: with enable_audit the *)
(* AuditLogger constructor has created the log file), answering queries.   *)
(***************************************************************************)
Init ==
    /\ enable_audit \in BOOLEAN
    /\ indexed \in SUBSET Corpus
    /\ RagIdle
    /\ logExists = enable_audit
    /\ log = <<>>
    /\ today = 0
    /\ ret = NoRet
    /\ GovEmpty
    /\ ChunkIdle
    /\ OtherIdle

Next ==
    \/ \E q \in Questions, u \in Users : QueryStart(q, u)
    \/ \E r \in RetrievalResults : QueryRetrieveOk(r)
    \/ \E m \in ErrTexts : QueryRetrieveFail(m)
    \/ QueryBuildPrompt
    \/ \E t \in AnswerTexts : QueryGenerateOk(t)
    \/ \E m \in ErrTexts : QueryGenerateFail(m)
    \/ QueryLogOk
    \/ \E m \in ErrTexts : QueryLogFail(m)
    \/ QueryNoAudit
    \/ Tick

Spec == Init /\ [][Next]_vars

\* The steps of a started query (lines 142-228).  query is straight-line code:
\* once called it runs on, and each call it makes (retrieval, generation, the
\* append) returns or raises.
QueryStep ==
    \/ \E r \in RetrievalResults : QueryRetrieveOk(r)
    \/ \E m \in ErrTexts : QueryRetrieveFail(m)
    \/ QueryBuildPrompt
    \/ \E t \in AnswerTexts : QueryGenerateOk(t)
    \/ \E m \in ErrTexts : QueryGenerateFail(m)
    \/ QueryLogOk
    \/ \E m \in ErrTexts : QueryLogFail(m)
    \/ QueryNoAudit

\* The queries of one orchestrator, each started query running to its end.
NextFair ==
    \/ \E q \in Questions, u \in Users : QueryStart(q, u)
    \/ QueryStep

SpecFair == Init /\ [][NextFair]_vars /\ WF_vars(QueryStep)

(***************************************************************************)
(* RAGSystem.query over any answer of the injected vector store.           *)
(***************************************************************************)
\* retrieve_context (lines 51-56): each list is taken from the store's answer
\* on its own; a missing or empty 'documents' or 'metadatas' gives [].
retrieve_context(res) ==
    [documents |-> IF res.documents # <<>> THEN res.documents[1] ELSE <<>>,
     metadatas |-> IF res.metadatas # <<>> THEN res.metadatas[1] ELSE <<>>]

\* Answers of a store passed to the constructor (line 13): the nearest chunks'
\* contents and metadata as two lists, either of which may be absent or
\* shorter than the other.
StoreAnswers ==
    UNION { { [documents |-> d, metadatas |-> md] :
                d \in {<<>>} \cup { <<[k \in 1..i |-> r[k].doc]>> : i \in 0..Len(r) },
                md \in {<<>>} \cup { <<[k \in 1..j |-> r[k].meta]>> : j \in 0..Len(r) } } :
            r \in RetrievalResults }

\* Line 155 with the store answering a.
QueryRetrieveAnswer(a) ==
    /\ pc = "retrieving"
    /\ context_docs' = retrieve_context(a).documents
    /\ context_metadata' = retrieve_context(a).metadatas
    /\ pc' = "prompting"
    /\ UNCHANGED <<enable_audit, indexed, question, user_id, prompt, error_msg,
                   source_files, response, obs, calls, auditVars, ret, govVars,
                   chunkVars, otherVars>>

NextStore ==
    \/ Next
    \/ \E a \in StoreAnswers : QueryRetrieveAnswer(a)

SpecStore == Init /\ [][NextStore]_vars

(***************************************************************************)
(* AuditLogger (src/src/audit_logger.py) and the two readers of its file.  *)
(* Dates are day numbers: strftime('%Y-%m-%d') yields strings whose        *)
(* lexicographic order (the order get_logs compares in) is the order of    *)
(* the days.  An absent optional argument (None) is <<>>, a given one <<x>>.*)
(***************************************************************************)
Max(a, b) == IF a >= b THEN a ELSE b

\* Mutant: the constructor opens the file with 'w' whether or not it exists.
AuditLoggerInit_Truncates ==
    /\ pc = "idle"
    /\ logExists' = TRUE
    /\ log' = <<>>
    /\ ret' = [op |-> "AuditLogger", kind |-> "return", val |-> [none |-> TRUE]]
    /\ UNCHANGED <<ragVars, today, govVars, chunkVars, otherVars>>

\* AuditLogger.__init__ (lines 24-29): create the file only if it is missing.
AuditLoggerInit ==
    /\ pc = "idle"
    /\ logExists' = TRUE
    /\ log' = IF logExists THEN log ELSE <<>>
    /\ ret' = [op |-> "AuditLogger", kind |-> "return", val |-> [none |-> TRUE]]
    /\ UNCHANGED <<ragVars, today, govVars, chunkVars, otherVars>>

\* The sources a question retrieves, as its caller passes them to log_query.
SourcesOf(q) == IF q = "Needle" THEN <<"a.pdf", "a.pdf", "b.pdf">> ELSE <<>>

\* The calls of log_query the model makes: every user, question and outcome,
\* and every pair of them, occurs in some call.
LogQueryArgs ==
    {[user_id |-> c[1], query |-> c[2], sources_retrieved |-> SourcesOf(c[2]),
      answer_generated |-> c[3],
      error |-> IF c[3] THEN <<>> ELSE <<"connection refused">>] :
        c \in {<<"EMP0001", "Needle", TRUE>>, <<"EMP0001", "hand", FALSE>>,
               <<"EMP0002", "Needle", FALSE>>, <<"EMP0002", "hand", TRUE>>}}

\* The query id: md5 of user_id + timestamp + query (lines 61-63), kept as
\* the triple it is computed from.
QueryId(u, q) == <<u, today, q>>

\* AuditLogger.log_query (lines 58-85) on an existing logger.
LogQuery(a) ==
    /\ pc = "idle"
    /\ logExists
    /\ Len(log) < MaxQueries
    /\ log' = AppendLine(log, LogEntry(a.user_id, a.query, a.sources_retrieved,
                                       a.answer_generated,
                                       Len(a.sources_retrieved), a.error))
    /\ ret' = [op |-> "log_query", kind |-> "return",
               val |-> [query_id |-> QueryId(a.user_id, a.query)]]
    /\ UNCHANGED <<ragVars, logExists, today, govVars, chunkVars, otherVars>>

\* The last n elements of s: s[-n:] for n > 0.
LastN(s, n) == SubSeq(s, Max(1, Len(s) - n + 1), Len(s))

\* AuditLogger.get_logs (lines 104-127).  A filter applies when its argument
\* is truthy; so does the limit.
get_logs(file, uid, start_date, end_date, limit) ==
    LET Keep(e) ==
            /\ ~(uid # "" /\ e.user_id # uid)
            /\ ~(start_date # <<>> /\ e.date < start_date[1])
            /\ ~(end_date # <<>> /\ e.date > end_date[1])
        logs == SelectSeq(file, Keep)
    IN  IF limit # <<>> /\ limit[1] # 0 THEN LastN(logs, limit[1]) ELSE logs

\* The filters get_logs is called with.
LogFilters ==
    {[user_id |-> f[1], start_date |-> f[2], end_date |-> f[3], limit |-> f[4]] :
        f \in {<<"", <<>>, <<>>, <<>>>>,
               <<"EMP0001", <<>>, <<>>, <<>>>>,
               <<"", <<1>>, <<>>, <<>>>>,
               <<"", <<>>, <<0>>, <<>>>>,
               <<"EMP0002", <<0>>, <<MaxDay>>, <<MaxLimit>>>>}
        \cup {<<"", <<>>, <<>>, <<n>>>> : n \in 0..MaxLimit}}

GetLogs(f) ==
    /\ pc = "idle"
    /\ logExists
    /\ ret' = [op |-> "get_logs", kind |-> "return",
               val |-> [logs |-> get_logs(log, f.user_id, f.start_date,
                                          f.end_date, f.limit),
                        filter |-> f]]
    /\ UNCHANGED <<ragVars, auditVars, govVars, chunkVars, otherVars>>

\* round(a / b, digits) with scale = 10^digits, as a count of 1/scale units:
\* to nearest, a tie to the even neighbour.
RoundDiv(a, b, scale) ==
    LET n == a * scale
        lo == n \div b
        r2 == 2 * (n % b)
    IN  IF r2 < b THEN lo
        ELSE IF r2 > b THEN lo + 1
        ELSE IF lo % 2 = 0 THEN lo ELSE lo + 1

\* AuditLogger.get_statistics (lines 142-195): what it returns, or the
\* exception it raises.  success_rate is in hundredths, queries_per_day in
\* tenths.
get_statistics(file, days) ==
    LET cutoff_date == today - days
        logs == get_logs(file, "", <<cutoff_date>>, <<>>, <<>>)
        total_queries == Len(logs)
        Succeeded(e) == e.answer_generated
        successful == Len(SelectSeq(logs, Succeeded))
    IN  IF logs = <<>>
        THEN [kind |-> "return",
              val |-> [total_queries |-> 0, period_days |-> days,
                       message |-> "No queries in this period"]]
        ELSE IF days = 0
        THEN [kind |-> "raise", val |-> [error |-> "ZeroDivisionError"]]
        ELSE [kind |-> "return",
              val |-> [period_days |-> days,
                       total_queries |-> total_queries,
                       unique_users |-> Cardinality({logs[i].user_id : i \in 1..Len(logs)}),
                       success_rate |-> RoundDiv(successful, total_queries, 100),
                       queries_per_day |-> RoundDiv(total_queries, days, 10),
                       queries_by_date |->
                           [d \in {logs[i].date : i \in 1..Len(logs)} |->
                               Cardinality({i \in 1..Len(logs) : logs[i].date = d})]]]

\* get_statistics without the `if not logs` return of lines 146-151: an empty
\* window reaches the division by total_queries of line 156.
GetStatistics_NoEmptyCheck(days) ==
    /\ pc = "idle"
    /\ logExists
    /\ ret' = IF get_logs(log, "", <<today - days>>, <<>>, <<>>) = <<>>
              THEN [op |-> "get_statistics", kind |-> "raise",
                    val |-> [error |-> "ZeroDivisionError"], days |-> days]
              ELSE [op |-> "get_statistics", kind |-> get_statistics(log, days).kind,
                    val |-> get_statistics(log, days).val, days |-> days]
    /\ UNCHANGED <<ragVars, auditVars, govVars, chunkVars, otherVars>>

GetStatistics(days) ==
    /\ pc = "idle"
    /\ logExists
    /\ ret' = [op |-> "get_statistics", kind |-> get_statistics(log, days).kind,
               val |-> get_statistics(log, days).val, days |-> days]
    /\ UNCHANGED <<ragVars, auditVars, govVars, chunkVars, otherVars>>

\* str.lower() on the texts of the model.
Lower(t) ==
    CASE t = "Needle" -> "needle"
      [] t = "AND" -> "and"
      [] OTHER -> t

\* k in t, for lower-case texts of the model.
IsSubstring(k, t) ==
    \/ k = ""
    \/ k = t
    \/ <<k, t>> \in {<<"and", "hand">>, <<"need", "needle">>}

Keywords == {"", "AND", "HIPAA"}

\* AuditLogger.search_queries (lines 208-220): the loop stops once
\* len(matches) >= limit, a test made after each match is appended.
search_queries(file, keyword, limit) ==
    LET Match(e) == IsSubstring(Lower(keyword), Lower(e.query))
        matches == SelectSeq(file, Match)
    IN  SubSeq(matches, 1, Min(Len(matches), Max(1, limit)))

SearchQueries(keyword, limit) ==
    /\ pc = "idle"
    /\ logExists
    /\ ret' = [op |-> "search_queries", kind |-> "return",
               val |-> [logs |-> search_queries(log, keyword, limit),
                        keyword |-> keyword, limit |-> limit]]
    /\ UNCHANGED <<ragVars, auditVars, govVars, chunkVars, otherVars>>

\* Occurrences of x in the sources_retrieved of all lines of the file.
Occurrences(file, x) ==
    LET F[i \in 0..Len(file)] ==
            IF i = 0 THEN 0
            ELSE F[i - 1] + Cardinality({j \in 1..Len(file[i].sources_retrieved) :
                                             file[i].sources_retrieved[j] = x})
    IN  F[Len(file)]

\* DocumentRegistry.sync_with_audit_logs (lines 231-255): the counter of
\* every registered document that occurs in the log is overwritten.
RegistrySync ==
    /\ pc = "idle"
    /\ registry' =
          IF ~logExists THEN registry
          ELSE [d \in DOMAIN registry |->
                   IF Occurrences(log, d) > 0
                   THEN [registry[d] EXCEPT !.times_referenced = Occurrences(log, d)]
                   ELSE registry[d]]
    /\ ret' = [op |-> "registry_sync", kind |-> "return", val |-> [none |-> TRUE]]
    /\ UNCHANGED <<ragVars, auditVars, users, chunkVars, otherVars>>

\* Indices of the lines of the file logged by user u.
LinesOf(file, u) == {i \in 1..Len(file) : file[i].user_id = u}

\* AccessControlSystem.sync_with_audit_logs (lines 241-272): query_count and
\* last_active of every known user that occurs in the log are overwritten.
AccessSync ==
    /\ pc = "idle"
    /\ users' =
          IF ~logExists THEN users
          ELSE [u \in DOMAIN users |->
                   IF LinesOf(log, u) # {}
                   THEN [users[u] EXCEPT
                           !.query_count = Cardinality(LinesOf(log, u)),
                           !.last_active =
                               <<log[CHOOSE i \in LinesOf(log, u) :
                                        \A j \in LinesOf(log, u) : j <= i].timestamp>>]
                   ELSE users[u]]
    /\ ret' = [op |-> "access_sync", kind |-> "return", val |-> [none |-> TRUE]]
    /\ UNCHANGED <<ragVars, auditVars, registry, chunkVars, otherVars>>

\* register_document's new entry (document_registry.py lines 56-69);
\* datetime.now() is the day, archived_date is the key archive_document adds.
DocumentEntry(d, source_url, document_type, classification, version) ==
    [document_id |-> d, added_date |-> today, source_url |-> source_url,
     document_type |-> document_type, classification |-> classification,
     version |-> version, last_verified |-> today, last_updated |-> today,
     times_referenced |-> 0, status |-> "active", retention_years |-> 7,
     tags |-> <<>>, archived_date |-> <<>>]

\* The entry of register_document(d) with the default arguments (lines 38-41).
NewDocument(d) == DocumentEntry(d, <<>>, "compliance", "public", "1.0")

\* A Python value a permission bundle holds: a bool or a str.
PyBool(b) == [type |-> "bool", b |-> b]
PyStr(t) == [type |-> "str", s |-> t]

\* AccessControlSystem.role_permissions (access_control.py lines 34-62).
role_permissions ==
    [employee |->
        [can_query_rag |-> PyBool(TRUE), can_view_own_analytics |-> PyBool(TRUE),
         can_view_org_analytics |-> PyBool(FALSE),
         can_modify_knowledge_base |-> PyBool(FALSE),
         can_manage_users |-> PyBool(FALSE), can_view_audit_logs |-> PyBool(FALSE),
         access_level |-> PyStr("standard")],
     trainer |->
        [can_query_rag |-> PyBool(TRUE), can_view_own_analytics |-> PyBool(TRUE),
         can_view_org_analytics |-> PyBool(TRUE),
         can_modify_knowledge_base |-> PyBool(FALSE),
         can_manage_users |-> PyBool(FALSE), can_view_audit_logs |-> PyBool(TRUE),
         access_level |-> PyStr("elevated")],
     admin |->
        [can_query_rag |-> PyBool(TRUE), can_view_own_analytics |-> PyBool(TRUE),
         can_view_org_analytics |-> PyBool(TRUE),
         can_modify_knowledge_base |-> PyBool(TRUE),
         can_manage_users |-> PyBool(TRUE), can_view_audit_logs |-> PyBool(TRUE),
         access_level |-> PyStr("full")]]

\* create_user's new record (access_control.py lines 91-102), without the
\* name, email and department no operation reads or writes afterwards;
\* deactivated_date is the key deactivate_user adds.
NewUser(u, role) ==
    [user_id |-> u, role |-> role, permissions |-> role_permissions[role],
     created_date |-> today, last_active |-> <<>>, status |-> "active",
     query_count |-> 0, deactivated_date |-> <<>>]

(***************************************************************************)
(* SpecAudit: no log file yet; a registry and a user store with entries;   *)
(* then any sequence of AuditLogger operations and syncs.                  *)
(***************************************************************************)
InitAudit ==
    /\ enable_audit = TRUE
    /\ indexed = {}
    /\ RagIdle
    /\ logExists = FALSE
    /\ log = <<>>
    /\ today = 0
    /\ ret = NoRet
    /\ registry = [d \in {"a.pdf", "c.pdf"} |-> NewDocument(d)]
    /\ users = [u \in {"EMP0001"} |-> NewUser(u, "employee")]
    /\ ChunkIdle
    /\ OtherIdle

NextAudit ==
    \/ AuditLoggerInit
    \/ \E a \in LogQueryArgs : LogQuery(a)
    \/ \E f \in LogFilters : GetLogs(f)
    \/ \E d \in 0..MaxDays : GetStatistics(d)
    \/ \E k \in Keywords, l \in 0..MaxLimit : SearchQueries(k, l)
    \/ RegistrySync
    \/ AccessSync
    \/ Tick

SpecAudit == InitAudit /\ [][NextAudit]_vars

(***************************************************************************)
(* DocumentChunker.chunk_text (src/src/chunker.py).                        *)
(* A text is a sequence of pieces, each with its token count and the       *)
(* separator before it: "para" for a blank line ("\n\n"), "sent" for ". ". *)
(* A piece of 0 tokens is empty text.  count_tokens is the tokenizer's; it *)
(* is additive over the pieces up to what each separator costs, which the  *)
(* tokenizer decides: sepTok per "\n\n", dotTok per ". " or final ".".     *)
(***************************************************************************)
Pieces == [tok : 0..MaxTok, brk : {"para", "sent"}]

Texts ==
    UNION {{t \in [1..k -> Pieces] : k > 0 => t[1].brk = "para"} : k \in 0..MaxPieces}

\* text.split('\n\n') (line 32), each paragraph as the list para.split('. ')
\* (line 57) would give: the token counts of its sentences.
RECURSIVE SplitParagraphs(_)
SplitParagraphs(t) ==
    IF t = <<>> THEN <<>>
    ELSE LET rest == SplitParagraphs(SubSeq(t, 1, Len(t) - 1))
             last == t[Len(t)]
         IN  IF Len(t) = 1 \/ last.brk = "para"
             THEN Append(rest, <<last.tok>>)
             ELSE [rest EXCEPT ![Len(rest)] = Append(@, last.tok)]

RECURSIVE SumSeq(_)
SumSeq(q) == IF q = <<>> THEN 0 ELSE q[1] + SumSeq(Tail(q))

\* count_tokens(para) for a paragraph given by its sentences (line 43).
ParaTokens(para) == SumSeq(para) + dotTok * (Len(para) - 1)

\* not para, after strip (lines 39-41).
ParaEmpty(para) == Len(para) = 1 /\ para[1] = 0

\* A paragraph or sentence held in current_chunk: where it comes from
\* (paragraph p; sentence s of it, 0 for the whole paragraph) and its tokens.
Unit(p, s, tok) == [p |-> p, s |-> s, tok |-> tok]

UnitTokens(units) == SumSeq([i \in 1..Len(units) |-> units[i].tok])

\* count_tokens of the content a list of units is joined to:
\* '\n\n'.join(units), or '. '.join(units) + '.'.
ContentTokens(units, join) ==
    IF join = "para"
    THEN UnitTokens(units) + sepTok * (Len(units) - 1)
    ELSE UnitTokens(units) + dotTok * Len(units)

\* A chunk appended to chunks: its units, how they are joined, and the
\* append that produced it: "presplit" (line 49), "sentence" (line 67),
\* "overflow" (line 83) or "final" (line 102).
Chunk(units, join, flush) == [units |-> units, join |-> join, flush |-> flush]

EmptyBuffer == [chunks |-> <<>>, cur |-> <<>>, tok |-> 0]

\* Mutant: the pending buffer is cleared without being saved.
FlushPending_Drop(st) ==
    [chunks |-> st.chunks, cur |-> <<>>, tok |-> 0]

\* Lines 48-54: save the pending buffer before an oversized paragraph.
FlushPending(st) ==
    IF st.cur # <<>>
    THEN [chunks |-> Append(st.chunks, Chunk(st.cur, "para", "presplit")),
          cur |-> <<>>, tok |-> 0]
    ELSE st

\* Lines 63-75: one non-empty sentence of an oversized paragraph.
AddSentence(st, u) ==
    IF st.tok + u.tok > chunk_size
    THEN [chunks |-> IF st.cur # <<>>
                     THEN Append(st.chunks, Chunk(st.cur, "sent", "sentence"))
                     ELSE st.chunks,
          cur |-> <<u>>, tok |-> u.tok]
    ELSE [chunks |-> st.chunks, cur |-> Append(st.cur, u), tok |-> st.tok + u.tok]

\* Lines 58-75: the sentences i.. of paragraph p.
RECURSIVE PackSentences(_, _, _, _)
PackSentences(st, p, para, i) ==
    IF i > Len(para) THEN st
    ELSE IF para[i] = 0 THEN PackSentences(st, p, para, i + 1)
    ELSE PackSentences(AddSentence(st, Unit(p, i, para[i])), p, para, i + 1)

\* Mutant: the new chunk starts with the new paragraph alone.
Reseed_NoOverlap(cur, u) == [cur |-> <<u>>, tok |-> u.tok]

\* Lines 90-95: the buffer after a flush: the last unit of the flushed chunk
\* and the new paragraph, counted as count_tokens('\n\n'.join(...)).
Reseed(cur, u) ==
    IF cur # <<>>
    THEN [cur |-> <<cur[Len(cur)], u>>,
          tok |-> ContentTokens(<<cur[Len(cur)], u>>, "para")]
    ELSE [cur |-> <<u>>, tok |-> u.tok]

\* Lines 80-98: a paragraph that fits chunk_size by itself.
AddParagraph(st, u) ==
    IF st.tok + u.tok > chunk_size
    THEN [chunks |-> IF st.cur # <<>>
                     THEN Append(st.chunks, Chunk(st.cur, "para", "overflow"))
                     ELSE st.chunks,
          cur |-> Reseed(st.cur, u).cur,
          tok |-> Reseed(st.cur, u).tok]
    ELSE [chunks |-> st.chunks, cur |-> Append(st.cur, u), tok |-> st.tok + u.tok]

\* Lines 38-98: one iteration of the loop over the paragraphs.
ProcessParagraph(st, p, para) ==
    IF ParaEmpty(para) THEN st
    ELSE IF ParaTokens(para) > chunk_size
    THEN PackSentences(FlushPending(st), p, para, 1)
    ELSE AddParagraph(st, Unit(p, 0, ParaTokens(para)))

RECURSIVE ProcessParagraphs(_, _, _)
ProcessParagraphs(st, paras, p) ==
    IF p > Len(paras) THEN st
    ELSE ProcessParagraphs(ProcessParagraph(st, p, paras[p]), paras, p + 1)

\* chunk_text (lines 24-107).
chunk_text(t) ==
    LET st == ProcessParagraphs(EmptyBuffer, SplitParagraphs(t), 1)
    IN  IF st.cur # <<>>
        THEN Append(st.chunks, Chunk(st.cur, "para", "final"))
        ELSE st.chunks

ChunkText ==
    /\ cpc = "input"
    /\ chunks' = chunk_text(text)
    /\ cpc' = "done"
    /\ UNCHANGED <<ragVars, auditVars, ret, govVars, text, chunk_size, sepTok, dotTok,
                   otherVars>>

(***************************************************************************)
(* SpecChunk: a chunker and a document, then chunk_text.                   *)
(***************************************************************************)
InitChunk ==
    /\ enable_audit = TRUE
    /\ indexed = {}
    /\ RagIdle
    /\ logExists = FALSE
    /\ log = <<>>
    /\ today = 0
    /\ ret = NoRet
    /\ GovEmpty
    /\ text \in Texts
    /\ chunk_size \in 1..MaxChunkSize
    /\ sepTok \in 0..1
    /\ dotTok \in 0..1
    /\ chunks = <<>>
    /\ cpc = "input"
    /\ OtherIdle

NextChunk == ChunkText

SpecChunk == InitChunk /\ [][NextChunk]_vars

(***************************************************************************)
(* DocumentChunker.process_documents (lines 109-145), as a function of the *)
(* list of documents.  A name is the list of the parts it is formatted     *)
(* from, so that f'doc_{i}' and a file called "doc_1" are the same name.   *)
(***************************************************************************)
\* doc.get('filename'): None (absent or empty) or a name.
Filenames == {<<>>, <<<<"a.pdf">>>>, <<<<"doc_", 1>>>>}

\* doc.get('title', ...): absent or a name.
Titles == {<<>>, <<<<"Exposure plan">>>>}

\* Contents chunk_text splits into no chunk, one chunk and several chunks.
Contents ==
    { <<>>,
      <<[tok |-> 1, brk |-> "para"]>>,
      <<[tok |-> 1, brk |-> "para"], [tok |-> 2, brk |-> "para"]>> }

DocumentPool == [filename : Filenames, title : Titles, content : Contents]

\* Line 127: doc.get('filename') or doc.get('title', f'doc_{i}'), for the
\* document at index i (from 0).
source_file(doc, i) ==
    IF doc.filename # <<>> THEN doc.filename[1]
    ELSE IF doc.title # <<>> THEN doc.title[1]
    ELSE <<"doc_", i>>

\* Line 136: f"{metadata['source_file']}_chunk_{j}".
chunk_id(doc, i, j) == source_file(doc, i) \o <<"_chunk_", j>>

\* Lines 121-138: the chunks of the document at index i (from 0), each with
\* its metadata.
DocumentChunks(doc, i) ==
    LET cs == chunk_text(doc.content)
    IN  [k \in 1..Len(cs) |->
            [content |-> cs[k],
             metadata |-> [doc_index |-> i,
                           source_file |-> source_file(doc, i),
                           chunk_index |-> k - 1,
                           total_chunks |-> Len(cs),
                           chunk_id |-> chunk_id(doc, i, k - 1)]]]

\* Lines 119-145: all_chunks after the documents 1..n of docs.
RECURSIVE process_documents(_, _)
process_documents(docs, n) ==
    IF n = 0 THEN <<>>
    ELSE process_documents(docs, n - 1) \o DocumentChunks(docs[n], n - 1)

ProcessDocuments ==
    /\ cpc = "input"
    /\ all_chunks' = process_documents(documents, Len(documents))
    /\ cpc' = "done"
    /\ UNCHANGED <<ragVars, auditVars, ret, govVars, text, chunk_size, sepTok,
                   dotTok, chunks, batchVars, writerVars, sharedVars, documents>>

InitDocs ==
    /\ enable_audit = TRUE
    /\ indexed = {}
    /\ RagIdle
    /\ logExists = FALSE
    /\ log = <<>>
    /\ today = 0
    /\ ret = NoRet
    /\ GovEmpty
    /\ text = <<>>
    /\ chunk_size = 2
    /\ sepTok \in 0..1
    /\ dotTok = 1
    /\ chunks = <<>>
    /\ cpc = "input"
    /\ questions = <<>>
    /\ batch_user = ""
    /\ results = <<>>
    /\ bpc = "idle"
    /\ wpc = <<>>
    /\ wline = <<>>
    /\ written = <<>>
    /\ rmem = <<>>
    /\ rsaved = <<>>
    /\ documents \in UNION {[1..n -> DocumentPool] : n \in 0..MaxDocs}
    /\ all_chunks = <<>>

NextDocs == ProcessDocuments

SpecDocs == InitDocs /\ [][NextDocs]_vars

(***************************************************************************)
(* DocumentRegistry (src/src/document_registry.py), one instance.  Every   *)
(* mutator ends with _save(), so the registry file equals self.registry    *)
(* between operations; registry is both.                                   *)
(***************************************************************************)
Documents == {"a.pdf", "c.pdf"}

\* The arguments register_document is called with: the defaults, and others.
RegisterArgs ==
    {[source_url |-> <<>>, document_type |-> "compliance",
      classification |-> "public", version |-> "1.0"],
     [source_url |-> <<"https://www.osha.gov/publications">>,
      document_type |-> "policy", classification |-> "restricted",
      version |-> "2.0"]}

\* update_reference_count's increment: any int.
Increments == {-1, 1}

NewVersions == {"2.0"}

\* Mutant: register_document without the `already registered` return.
RegisterDocument_Overwrites(d, a) ==
    /\ pc = "idle"
    /\ registry' =
          [x \in DOMAIN registry \cup {d} |->
              IF x = d
              THEN DocumentEntry(d, a.source_url, a.document_type,
                                 a.classification, a.version)
              ELSE registry[x]]
    /\ ret' = [op |-> "register_document", kind |-> "return",
               val |-> [document_id |-> d, warned |-> FALSE, args |-> a]]
    /\ UNCHANGED <<ragVars, auditVars, users, chunkVars, otherVars>>

\* DocumentRegistry.register_document (lines 36-71).  warned: the call
\* printed "already registered" and returned.
RegisterDocument(d, a) ==
    /\ pc = "idle"
    /\ registry' =
          IF d \in DOMAIN registry THEN registry
          ELSE [x \in DOMAIN registry \cup {d} |->
                   IF x = d
                   THEN DocumentEntry(d, a.source_url, a.document_type,
                                      a.classification, a.version)
                   ELSE registry[x]]
    /\ ret' = [op |-> "register_document", kind |-> "return",
               val |-> [document_id |-> d, warned |-> d \in DOMAIN registry,
                        args |-> a]]
    /\ UNCHANGED <<ragVars, auditVars, users, chunkVars, otherVars>>

\* DocumentRegistry.update_reference_count (lines 73-83).
UpdateReferenceCount(d, increment) ==
    /\ pc = "idle"
    /\ d \in DOMAIN registry =>
           registry[d].times_referenced + increment \in -MaxRefs..MaxRefs
    /\ registry' =
          IF d \in DOMAIN registry
          THEN [registry EXCEPT ![d].times_referenced = @ + increment]
          ELSE registry
    /\ ret' = [op |-> "update_reference_count", kind |-> "return",
               val |-> [document_id |-> d, increment |-> increment]]
    /\ UNCHANGED <<ragVars, auditVars, users, chunkVars, otherVars>>

\* DocumentRegistry.mark_verified (lines 85-89).
MarkVerified(d) ==
    /\ pc = "idle"
    /\ registry' =
          IF d \in DOMAIN registry
          THEN [registry EXCEPT ![d].last_verified = today]
          ELSE registry
    /\ ret' = [op |-> "mark_verified", kind |-> "return",
               val |-> [document_id |-> d]]
    /\ UNCHANGED <<ragVars, auditVars, users, chunkVars, otherVars>>

\* Mutant: update_version rewrites the status as well.
UpdateVersion_Reactivates(d, new_version) ==
    /\ pc = "idle"
    /\ registry' =
          IF d \in DOMAIN registry
          THEN [registry EXCEPT ![d].version = new_version,
                                ![d].last_updated = today,
                                ![d].status = "active"]
          ELSE registry
    /\ ret' = [op |-> "update_version", kind |-> "return",
               val |-> [document_id |-> d]]
    /\ UNCHANGED <<ragVars, auditVars, users, chunkVars, otherVars>>

\* DocumentRegistry.update_version (lines 91-96).
UpdateVersion(d, new_version) ==
    /\ pc = "idle"
    /\ registry' =
          IF d \in DOMAIN registry
          THEN [registry EXCEPT ![d].version = new_version,
                                ![d].last_updated = today]
          ELSE registry
    /\ ret' = [op |-> "update_version", kind |-> "return",
               val |-> [document_id |-> d]]
    /\ UNCHANGED <<ragVars, auditVars, users, chunkVars, otherVars>>

\* DocumentRegistry.archive_document (lines 98-103).
ArchiveDocument(d) ==
    /\ pc = "idle"
    /\ registry' =
          IF d \in DOMAIN registry
          THEN [registry EXCEPT ![d].status = "archived",
                                ![d].archived_date = <<today>>]
          ELSE registry
    /\ ret' = [op |-> "archive_document", kind |-> "return",
               val |-> [document_id |-> d]]
    /\ UNCHANGED <<ragVars, auditVars, users, chunkVars, otherVars>>

\* The log_query calls whose entries the registry is synced with.
RegistryLogArgs == {a \in LogQueryArgs : a.user_id = "EMP0001" /\ a.query = "Needle"}

(***************************************************************************)
(* SpecRegistry: a new registry (no file: {'documents': {}}, line 31) and  *)
(* an audit log that may not exist yet; then any sequence of registry      *)
(* operations, log appends and syncs, within one day.                      *)
(***************************************************************************)
InitRegistry ==
    /\ enable_audit = TRUE
    /\ indexed = {}
    /\ RagIdle
    /\ logExists \in BOOLEAN
    /\ log = <<>>
    /\ today = 0
    /\ ret = NoRet
    /\ GovEmpty
    /\ ChunkIdle
    /\ OtherIdle

NextRegistry ==
    \/ \E d \in Documents, a \in RegisterArgs : RegisterDocument(d, a)
    \/ \E d \in Documents, i \in Increments : UpdateReferenceCount(d, i)
    \/ \E d \in Documents : MarkVerified(d)
    \/ \E d \in Documents, v \in NewVersions : UpdateVersion(d, v)
    \/ \E d \in Documents : ArchiveDocument(d)
    \/ RegistrySync
    \/ \E a \in RegistryLogArgs : LogQuery(a)

SpecRegistry == InitRegistry /\ [][NextRegistry]_vars

(***************************************************************************)
(* SpecShared: two DocumentRegistry instances opened on the same registry  *)
(* file.  Here `registry` is the content of the file and rmem[i] the       *)
(* in-memory registry of instance i; a missing file and a file without     *)
(* documents load alike (lines 26-31).                                     *)
(***************************************************************************)
Registries == {"r1", "r2"}

\* DocumentRegistry.__init__ (lines 26-31): the file is read once, here.
DocumentRegistryInit(i) ==
    /\ rmem[i] = <<>>
    /\ rmem' = [rmem EXCEPT ![i] = <<registry>>]
    /\ ret' = [op |-> "DocumentRegistry", kind |-> "return", val |-> [by |-> i]]
    /\ UNCHANGED <<ragVars, auditVars, govVars, chunkVars, batchVars,
                   writerVars, rsaved, docVars>>

\* Mutant: _save re-reads the file and adds the new entry to what it finds,
\* leaving the documents other instances saved in place.
RegisterDocumentBy_Merging(i, d) ==
    /\ rmem[i] # <<>>
    /\ Len(rsaved) < MaxSaves
    /\ d \notin DOMAIN rmem[i][1]
    /\ rmem' = [rmem EXCEPT ![i] =
                   <<[x \in DOMAIN rmem[i][1] \cup {d} |->
                         IF x = d THEN NewDocument(d) ELSE rmem[i][1][x]]>>]
    /\ registry' = [x \in DOMAIN registry \cup DOMAIN rmem'[i][1] |->
                       IF x \in DOMAIN rmem'[i][1] THEN rmem'[i][1][x]
                       ELSE registry[x]]
    /\ rsaved' = Append(rsaved, [by |-> i, document_id |-> d, op |-> "register"])
    /\ ret' = [op |-> "register_document", kind |-> "return",
               val |-> [document_id |-> d, warned |-> FALSE, by |-> i]]
    /\ UNCHANGED <<ragVars, auditVars, users, chunkVars, batchVars,
                   writerVars, docVars>>

\* register_document of instance i (lines 52-71) on a document its copy does
\* not hold: the entry is added to the copy and _save (lines 257-260) writes
\* the whole copy over the file.
RegisterDocumentBy(i, d) ==
    /\ rmem[i] # <<>>
    /\ Len(rsaved) < MaxSaves
    /\ d \notin DOMAIN rmem[i][1]
    /\ rmem' = [rmem EXCEPT ![i] =
                   <<[x \in DOMAIN rmem[i][1] \cup {d} |->
                         IF x = d THEN NewDocument(d) ELSE rmem[i][1][x]]>>]
    /\ registry' = rmem'[i][1]
    /\ rsaved' = Append(rsaved, [by |-> i, document_id |-> d, op |-> "register"])
    /\ ret' = [op |-> "register_document", kind |-> "return",
               val |-> [document_id |-> d, warned |-> FALSE, by |-> i]]
    /\ UNCHANGED <<ragVars, auditVars, users, chunkVars, batchVars,
                   writerVars, docVars>>

\* register_document of instance i on a document its copy holds (lines 52-54):
\* a warning, no write.
RegisterDocumentKnownBy(i, d) ==
    /\ rmem[i] # <<>>
    /\ d \in DOMAIN rmem[i][1]
    /\ ret' = [op |-> "register_document", kind |-> "return",
               val |-> [document_id |-> d, warned |-> TRUE, by |-> i]]
    /\ UNCHANGED <<ragVars, auditVars, govVars, chunkVars, otherVars>>

\* archive_document of instance i (lines 98-103): its copy is changed and
\* written over the file.
ArchiveDocumentBy(i, d) ==
    /\ rmem[i] # <<>>
    /\ Len(rsaved) < MaxSaves
    /\ d \in DOMAIN rmem[i][1]
    /\ rmem' = [rmem EXCEPT ![i] =
                   <<[rmem[i][1] EXCEPT ![d].status = "archived",
                                        ![d].archived_date = <<today>>]>>]
    /\ registry' = rmem'[i][1]
    /\ rsaved' = Append(rsaved, [by |-> i, document_id |-> d, op |-> "archive"])
    /\ ret' = [op |-> "archive_document", kind |-> "return",
               val |-> [document_id |-> d, by |-> i]]
    /\ UNCHANGED <<ragVars, auditVars, users, chunkVars, batchVars,
                   writerVars, docVars>>

InitShared ==
    /\ enable_audit = TRUE
    /\ indexed = {}
    /\ RagIdle
    /\ logExists = FALSE
    /\ log = <<>>
    /\ today = 0
    /\ ret = NoRet
    /\ GovEmpty
    /\ ChunkIdle
    /\ questions = <<>>
    /\ batch_user = ""
    /\ results = <<>>
    /\ bpc = "idle"
    /\ wpc = <<>>
    /\ wline = <<>>
    /\ written = <<>>
    /\ rmem = [i \in Registries |-> <<>>]
    /\ rsaved = <<>>
    /\ documents = <<>>
    /\ all_chunks = <<>>

NextShared ==
    \/ \E i \in Registries : DocumentRegistryInit(i)
    \/ \E i \in Registries, d \in Documents : RegisterDocumentBy(i, d)
    \/ \E i \in Registries, d \in Documents : RegisterDocumentKnownBy(i, d)
    \/ \E i \in Registries, d \in Documents : ArchiveDocumentBy(i, d)

SpecShared == InitShared /\ [][NextShared]_vars

(***************************************************************************)
(* AccessControlSystem (src/src/access_control.py), one instance.          *)
(***************************************************************************)
\* The roles callers pass: the three of role_permissions and an unknown one.
Roles == {"employee", "trainer", "admin", "auditor"}

\* The permissions callers ask for: a granted or denied flag, the str-valued
\* access_level, and a name no bundle has.
Permissions == {"can_query_rag", "can_manage_users", "access_level", "can_delete_logs"}

\* AccessControlSystem.create_user (lines 67-105).
CreateUser(u, role) ==
    /\ pc = "idle"
    /\ users' =
          IF u \in DOMAIN users \/ role \notin DOMAIN role_permissions
          THEN users
          ELSE [x \in DOMAIN users \cup {u} |->
                   IF x = u THEN NewUser(u, role) ELSE users[x]]
    /\ ret' = [op |-> "create_user", kind |-> "return",
               val |-> [user_id |-> u, role |-> role]]
    /\ UNCHANGED <<ragVars, auditVars, registry, chunkVars, otherVars>>

\* AccessControlSystem.update_last_active (lines 107-112).
UpdateLastActive(u) ==
    /\ pc = "idle"
    /\ u \in DOMAIN users => users[u].query_count < MaxQueryCount
    /\ users' =
          IF u \in DOMAIN users
          THEN [users EXCEPT ![u].last_active = <<today>>,
                             ![u].query_count = @ + 1]
          ELSE users
    /\ ret' = [op |-> "update_last_active", kind |-> "return",
               val |-> [user_id |-> u]]
    /\ UNCHANGED <<ragVars, auditVars, registry, chunkVars, otherVars>>

\* Mutant: change_role writes the role and leaves the permissions.
ChangeRole_KeepsPermissions(u, new_role) ==
    /\ pc = "idle"
    /\ users' =
          IF u \in DOMAIN users /\ new_role \in DOMAIN role_permissions
          THEN [users EXCEPT ![u].role = new_role]
          ELSE users
    /\ ret' = [op |-> "change_role", kind |-> "return",
               val |-> [user_id |-> u, new_role |-> new_role,
                        result |-> u \in DOMAIN users
                                   /\ new_role \in DOMAIN role_permissions]]
    /\ UNCHANGED <<ragVars, auditVars, registry, chunkVars, otherVars>>

\* AccessControlSystem.change_role (lines 114-139).
ChangeRole(u, new_role) ==
    /\ pc = "idle"
    /\ users' =
          IF u \in DOMAIN users /\ new_role \in DOMAIN role_permissions
          THEN [users EXCEPT ![u].role = new_role,
                             ![u].permissions = role_permissions[new_role]]
          ELSE users
    /\ ret' = [op |-> "change_role", kind |-> "return",
               val |-> [user_id |-> u, new_role |-> new_role,
                        result |-> u \in DOMAIN users
                                   /\ new_role \in DOMAIN role_permissions]]
    /\ UNCHANGED <<ragVars, auditVars, registry, chunkVars, otherVars>>

\* AccessControlSystem.deactivate_user (lines 141-147).
DeactivateUser(u) ==
    /\ pc = "idle"
    /\ users' =
          IF u \in DOMAIN users
          THEN [users EXCEPT ![u].status = "inactive",
                             ![u].deactivated_date = <<today>>]
          ELSE users
    /\ ret' = [op |-> "deactivate_user", kind |-> "return",
               val |-> [user_id |-> u]]
    /\ UNCHANGED <<ragVars, auditVars, registry, chunkVars, otherVars>>

\* Mutant: check_permission without the status test of lines 166-167.
check_permission_IgnoresStatus(us, u, permission) ==
    IF u \notin DOMAIN us THEN PyBool(FALSE)
    ELSE IF permission \in DOMAIN us[u].permissions
    THEN us[u].permissions[permission]
    ELSE PyBool(FALSE)

\* AccessControlSystem.check_permission (lines 149-170): the value returned,
\* user['permissions'].get(permission, False) for an active user.
check_permission(us, u, permission) ==
    IF u \notin DOMAIN us THEN PyBool(FALSE)
    ELSE IF us[u].status # "active" THEN PyBool(FALSE)
    ELSE IF permission \in DOMAIN us[u].permissions
    THEN us[u].permissions[permission]
    ELSE PyBool(FALSE)

CheckPermission(u, permission) ==
    /\ pc = "idle"
    /\ ret' = [op |-> "check_permission", kind |-> "return",
               val |-> [user_id |-> u, permission |-> permission,
                        result |-> check_permission(users, u, permission)]]
    /\ UNCHANGED <<ragVars, auditVars, govVars, chunkVars, otherVars>>

\* The log_query calls whose entries the user store is synced with.
AccessLogArgs == {a \in LogQueryArgs : a.user_id = "EMP0001" /\ a.query = "hand"}

(***************************************************************************)
(* SpecAccess: a new user store (no file: {'users': {}}, line 31) and an   *)
(* audit log that may not exist yet; then any sequence of access-control   *)
(* operations, log appends and syncs, within one day.                      *)
(***************************************************************************)
InitAccess ==
    /\ enable_audit = TRUE
    /\ indexed = {}
    /\ RagIdle
    /\ logExists \in BOOLEAN
    /\ log = <<>>
    /\ today = 0
    /\ ret = NoRet
    /\ GovEmpty
    /\ ChunkIdle
    /\ OtherIdle

NextAccess ==
    \/ \E u \in Users, r \in Roles : CreateUser(u, r)
    \/ \E u \in Users : UpdateLastActive(u)
    \/ \E u \in Users, r \in Roles : ChangeRole(u, r)
    \/ \E u \in Users : DeactivateUser(u)
    \/ \E u \in Users, p \in Permissions : CheckPermission(u, p)
    \/ AccessSync
    \/ \E a \in AccessLogArgs : LogQuery(a)

SpecAccess == InitAccess /\ [][NextAccess]_vars

(***************************************************************************)
(* RAGSystem.batch_query (src/src/rag_system.py lines 230-253): the loop   *)
(* around query.  Between two steps of the loop ret tells where it is: a   *)
(* pending batch_query before the next call of query, the query's return   *)
(* or exception after it.                                                  *)
(***************************************************************************)
BatchPending == [op |-> "batch_query", kind |-> "pending", val |-> [none |-> TRUE]]

\* The question lists batch_query is called with.
QuestionLists == UNION {[1..n -> Questions] : n \in 0..MaxQueries}

\* Line 242: results = [].
BatchQuery(qs, u) ==
    /\ bpc = "idle"
    /\ pc = "idle"
    /\ calls + Len(qs) <= MaxQueries
    /\ questions' = qs
    /\ batch_user' = u
    /\ results' = <<>>
    /\ bpc' = "loop"
    /\ ret' = BatchPending
    /\ UNCHANGED <<ragVars, auditVars, govVars, chunkVars, writerVars,
                   sharedVars, docVars>>

\* Line 250: the call self.query(question, user_id=user_id) for the next
\* question.
BatchCallQuery ==
    /\ bpc = "loop"
    /\ ret = BatchPending
    /\ Len(results) < Len(questions)
    /\ QueryStart(questions[Len(results) + 1], batch_user)

\* Mutant: the response is put in front of the earlier ones.
BatchAppend_Prepends ==
    /\ bpc = "loop"
    /\ pc = "idle"
    /\ ret.op = "query" /\ ret.kind = "return"
    /\ results' = <<ret.val>> \o results
    /\ ret' = BatchPending
    /\ UNCHANGED <<ragVars, auditVars, govVars, chunkVars, questions, batch_user,
                   bpc, writerVars, sharedVars, docVars>>

\* Lines 250-251: query returned; results.append(result).
BatchAppend ==
    /\ bpc = "loop"
    /\ pc = "idle"
    /\ ret.op = "query" /\ ret.kind = "return"
    /\ results' = Append(results, ret.val)
    /\ ret' = BatchPending
    /\ UNCHANGED <<ragVars, auditVars, govVars, chunkVars, questions, batch_user,
                   bpc, writerVars, sharedVars, docVars>>

\* Line 250: query raised (its audit-log write failed); nothing catches the
\* exception, it leaves batch_query and the results are lost.
BatchRaise ==
    /\ bpc = "loop"
    /\ pc = "idle"
    /\ ret.op = "query" /\ ret.kind = "raise"
    /\ bpc' = "idle"
    /\ ret' = [op |-> "batch_query", kind |-> "raise", val |-> ret.val]
    /\ UNCHANGED <<ragVars, auditVars, govVars, chunkVars, questions, batch_user,
                   results, writerVars, sharedVars, docVars>>

\* Line 253: the loop is over; return results.
BatchReturn ==
    /\ bpc = "loop"
    /\ ret = BatchPending
    /\ Len(results) = Len(questions)
    /\ bpc' = "idle"
    /\ ret' = [op |-> "batch_query", kind |-> "return", val |-> [results |-> results]]
    /\ UNCHANGED <<ragVars, auditVars, govVars, chunkVars, questions, batch_user,
                   results, writerVars, sharedVars, docVars>>

(***************************************************************************)
(* SpecBatch: one orchestrator, as in Spec, answering batches.             *)
(***************************************************************************)
InitBatch == Init

NextBatch ==
    \/ \E qs \in QuestionLists, u \in Users : BatchQuery(qs, u)
    \/ BatchCallQuery
    \/ \E r \in RetrievalResults : QueryRetrieveOk(r)
    \/ \E m \in ErrTexts : QueryRetrieveFail(m)
    \/ QueryBuildPrompt
    \/ \E t \in AnswerTexts : QueryGenerateOk(t)
    \/ \E m \in ErrTexts : QueryGenerateFail(m)
    \/ QueryLogOk
    \/ \E m \in ErrTexts : QueryLogFail(m)
    \/ QueryNoAudit
    \/ BatchAppend
    \/ BatchRaise
    \/ BatchReturn

SpecBatch == InitBatch /\ [][NextBatch]_vars

(***************************************************************************)
(* Several AuditLogger instances (one per orchestrator) appending to one   *)
(* log file, their log_query calls interleaved.  log_query (lines 58-85)   *)
(* builds its line, opens the file with 'a' and hands the line to one      *)
(* write, flushed when the with block closes the file.  A file opened for  *)
(* appending writes at the end the file has at the time of the write; the  *)
(* storage is taken to append one write as a whole.                        *)
(***************************************************************************)
Writers == {"w1", "w2"}

\* The user each instance's orchestrator logs for.
WriterUser(w) == IF w = "w1" THEN "EMP0001" ELSE "EMP0002"

NoLine == [none |-> TRUE]

\* Lines 58-82: the entry is built and the file opened; pos is the position
\* the file object starts at, the end of the file as it is now.
LogQueryOpen(w, a) ==
    /\ wpc[w] = "idle"
    /\ a.user_id = WriterUser(w)
    /\ Len(written) + Cardinality({v \in Writers : wpc[v] = "open"}) < MaxQueries
    /\ wpc' = [wpc EXCEPT ![w] = "open"]
    /\ wline' = [wline EXCEPT ![w] =
                    [line |-> LogEntry(a.user_id, a.query, a.sources_retrieved,
                                       a.answer_generated,
                                       Len(a.sources_retrieved), a.error),
                     pos |-> Len(log)]]
    /\ UNCHANGED <<ragVars, auditVars, ret, govVars, chunkVars, batchVars,
                   sharedVars, written, docVars>>

\* Mutant: the line is written at the position the file had when it was
\* opened, over whatever another instance wrote there since.
LogQueryWrite_AtOpenPosition(w) ==
    /\ wpc[w] = "open"
    /\ log' = IF wline[w].pos < Len(log)
              THEN [log EXCEPT ![wline[w].pos + 1] = wline[w].line]
              ELSE AppendLine(log, wline[w].line)
    /\ written' = Append(written, wline[w].line)
    /\ wpc' = [wpc EXCEPT ![w] = "idle"]
    /\ ret' = [op |-> "log_query", kind |-> "return",
               val |-> [query_id |-> QueryId(wline[w].line.user_id,
                                             wline[w].line.query)]]
    /\ UNCHANGED <<ragVars, logExists, today, govVars, chunkVars, batchVars,
                   sharedVars, wline, docVars>>

\* Lines 83-85: the write, the close and the return.
LogQueryWrite(w) ==
    /\ wpc[w] = "open"
    /\ log' = AppendLine(log, wline[w].line)
    /\ written' = Append(written, wline[w].line)
    /\ wpc' = [wpc EXCEPT ![w] = "idle"]
    /\ ret' = [op |-> "log_query", kind |-> "return",
               val |-> [query_id |-> QueryId(wline[w].line.user_id,
                                             wline[w].line.query)]]
    /\ UNCHANGED <<ragVars, logExists, today, govVars, chunkVars, batchVars,
                   sharedVars, wline, docVars>>

(***************************************************************************)
(* SpecWriters: the instances are constructed (the log file exists); then  *)
(* their log_query calls, in any interleaving, and the clock.              *)
(***************************************************************************)
InitWriters ==
    /\ enable_audit = TRUE
    /\ indexed = {}
    /\ RagIdle
    /\ logExists = TRUE
    /\ log = <<>>
    /\ today = 0
    /\ ret = NoRet
    /\ GovEmpty
    /\ ChunkIdle
    /\ questions = <<>>
    /\ batch_user = ""
    /\ results = <<>>
    /\ bpc = "idle"
    /\ wpc = [w \in Writers |-> "idle"]
    /\ wline = [w \in Writers |-> NoLine]
    /\ written = <<>>
    /\ rmem = <<>>
    /\ rsaved = <<>>
    /\ documents = <<>>
    /\ all_chunks = <<>>

NextWriters ==
    \/ \E w \in Writers, a \in LogQueryArgs : LogQueryOpen(w, a)
    \/ \E w \in Writers : LogQueryWrite(w)
    \/ Tick

SpecWriters == InitWriters /\ [][NextWriters]_vars

(***************************************************************************)
(* SpecCtor: two instances are constructed on the same log file and then   *)
(* log queries, every step of one interleaved with the steps of the other. *)
(***************************************************************************)
\* AuditLogger.__init__ line 27: os.path.exists(self.log_file).  An instance
\* that finds the file is constructed; one that does not goes on to create it.
AuditLoggerInitCheck(w) ==
    /\ wpc[w] = "new"
    /\ wpc' = [wpc EXCEPT ![w] = IF logExists THEN "idle" ELSE "missing"]
    /\ UNCHANGED <<ragVars, auditVars, ret, govVars, chunkVars, batchVars, sharedVars,
                   wline, written, docVars>>

\* AuditLogger.__init__ lines 28-31: open(self.log_file, 'w') creates the file
\* or, if it exists by now, truncates it.
AuditLoggerInitCreate(w) ==
    /\ wpc[w] = "missing"
    /\ logExists' = TRUE
    /\ log' = <<>>
    /\ wpc' = [wpc EXCEPT ![w] = "idle"]
    /\ ret' = [op |-> "AuditLogger", kind |-> "return", val |-> [none |-> TRUE]]
    /\ UNCHANGED <<ragVars, today, govVars, chunkVars, batchVars, sharedVars,
                   wline, written, docVars>>

InitCtor ==
    /\ enable_audit = TRUE
    /\ indexed = {}
    /\ RagIdle
    /\ logExists \in BOOLEAN
    /\ log = <<>>
    /\ today = 0
    /\ ret = NoRet
    /\ GovEmpty
    /\ ChunkIdle
    /\ questions = <<>>
    /\ batch_user = ""
    /\ results = <<>>
    /\ bpc = "idle"
    /\ wpc = [w \in Writers |-> "new"]
    /\ wline = [w \in Writers |-> NoLine]
    /\ written = <<>>
    /\ rmem = <<>>
    /\ rsaved = <<>>
    /\ documents = <<>>
    /\ all_chunks = <<>>

NextCtor ==
    \/ \E w \in Writers : AuditLoggerInitCheck(w)
    \/ \E w \in Writers : AuditLoggerInitCreate(w)
    \/ \E w \in Writers, a \in LogQueryArgs : LogQueryOpen(w, a)
    \/ \E w \in Writers : LogQueryWrite(w)

SpecCtor == InitCtor /\ [][NextCtor]_vars

(***************************************************************************)
(* ComplianceDashboard.generate_executive_summary                          *)
(* (src/src/compliance_dashboard.py) over the log, the registry and the    *)
(* user store.  Response times are in hundredths of a second (log_query    *)
(* rounds them to two decimals), rates in hundredths, engagement_rate in   *)
(* tenths of a percent.                                                    *)
(***************************************************************************)
\* AuditLogger.get_statistics with the average response time of lines
\* 155-156 and 185 next to the fields of get_statistics above.
audit_statistics(file, days) ==
    LET stats == get_statistics(file, days)
        logs == get_logs(file, "", <<today - days>>, <<>>, <<>>)
        total[i \in 0..Len(logs)] ==
            IF i = 0 THEN 0 ELSE total[i - 1] + logs[i].response_time_seconds
    IN  IF stats.kind = "return" /\ "success_rate" \in DOMAIN stats.val
        THEN [kind |-> "return",
              val |-> stats.val @@
                      [avg_response_time_seconds |->
                           RoundDiv(total[Len(logs)], Len(logs), 1)]]
        ELSE stats

StaleDays == 365

\* DocumentRegistry.get_stale_documents (lines 119-136): the ids of the
\* active documents last verified more than `days` days ago.
get_stale_documents(reg, days) ==
    {d \in DOMAIN reg : reg[d].status = "active" /\ reg[d].last_verified < today - days}

\* DocumentRegistry.get_usage_report (lines 138-183), the counts the
\* dashboard reads.
doc_usage_report(reg) ==
    [total_documents |-> Cardinality(DOMAIN reg),
     active_documents |-> Cardinality({d \in DOMAIN reg : reg[d].status = "active"}),
     archived_documents |-> Cardinality({d \in DOMAIN reg : reg[d].status = "archived"}),
     never_referenced_count |->
         Cardinality({d \in DOMAIN reg : reg[d].times_referenced = 0
                                         /\ reg[d].status = "active"})]

\* AccessControlSystem.get_usage_report (lines 274-311), the counts the
\* dashboard reads.
user_usage_report(us) ==
    [total_users |-> Cardinality(DOMAIN us),
     active_users |-> Cardinality({u \in DOMAIN us : us[u].status = "active"}),
     never_queried |->
         Cardinality({u \in DOMAIN us : us[u].query_count = 0
                                        /\ us[u].status = "active"})]

SlowResponse == 3000       \* 30 s
MinSuccessRate == 90       \* 0.9
StaleDocsLimit == 10
UnusedDocsLimit == 20

Alert(severity, message) == [severity |-> severity, message |-> message]

\* ComplianceDashboard._generate_alerts (lines 74-114); a message is kept as
\* its fixed beginning.
generate_alerts(audit_stats, doc_report, user_report, stale_docs) ==
    LET avg == IF "avg_response_time_seconds" \in DOMAIN audit_stats
               THEN audit_stats.avg_response_time_seconds ELSE 0
        rate == IF "success_rate" \in DOMAIN audit_stats
                THEN audit_stats.success_rate ELSE 100
        active == user_report.active_users
        engaged == active - user_report.never_queried
    IN  (IF avg > SlowResponse
         THEN <<Alert("warning", "Avg response time high")>> ELSE <<>>)
        \o (IF rate < MinSuccessRate
            THEN <<Alert("critical", "Low success rate")>> ELSE <<>>)
        \o (IF Cardinality(stale_docs) > StaleDocsLimit
            THEN <<Alert("warning", "documents need verification")>> ELSE <<>>)
        \o (IF doc_report.never_referenced_count > UnusedDocsLimit
            THEN <<Alert("info", "documents never referenced")>> ELSE <<>>)
        \o (IF active = 0 \/ 2 * engaged < active
            THEN <<Alert("warning", "Low user engagement")>> ELSE <<>>)

\* ComplianceDashboard.generate_executive_summary (lines 26-72): what it
\* returns, or the exception get_statistics raises.
generate_executive_summary(file, reg, us, days) ==
    LET audit_stats == audit_statistics(file, days)
        doc_report == doc_usage_report(reg)
        user_report == user_usage_report(us)
        stale_docs == get_stale_documents(reg, StaleDays)
        Get(key, default) ==
            IF key \in DOMAIN audit_stats.val THEN audit_stats.val[key] ELSE default
    IN  IF audit_stats.kind = "raise" THEN audit_stats
        ELSE [kind |-> "return",
              val |->
                [period_days |-> days,
                 system_health |->
                     [total_queries |-> Get("total_queries", 0),
                      active_users |-> user_report.active_users,
                      avg_response_time |-> Get("avg_response_time_seconds", 0),
                      success_rate |-> Get("success_rate", 0),
                      queries_per_day |-> Get("queries_per_day", 0)],
                 knowledge_base |->
                     [total_documents |-> doc_report.total_documents,
                      active_documents |-> doc_report.active_documents,
                      stale_documents |-> Cardinality(stale_docs),
                      never_referenced |-> doc_report.never_referenced_count],
                 user_engagement |->
                     [total_users |-> user_report.total_users,
                      active_users |-> user_report.active_users,
                      never_queried |-> user_report.never_queried,
                      engagement_rate |->
                          IF user_report.active_users > 0
                          THEN RoundDiv((user_report.active_users
                                            - user_report.never_queried) * 100,
                                        user_report.active_users, 10)
                          ELSE 0],
                 alerts |-> generate_alerts(audit_stats.val, doc_report,
                                            user_report, stale_docs)]]

GenerateExecutiveSummary(days) ==
    /\ pc = "idle"
    /\ logExists
    /\ ret' = [op |-> "generate_executive_summary",
               kind |-> generate_executive_summary(log, registry, users, days).kind,
               val |-> generate_executive_summary(log, registry, users, days).val,
               days |-> days]
    /\ UNCHANGED <<ragVars, auditVars, govVars, chunkVars, otherVars>>

\* A log of n entries written today, the first ns of them successful, the
\* first nslow of them one hundredth of a second slower than base.
DashLog(n, ns, nslow, base) ==
    [i \in 1..n |->
        LogEntry("EMP0001", "hand", <<>>, i <= ns, 0,
                 IF i <= ns THEN <<>> ELSE <<"connection refused">>)
        @@ [response_time_seconds |-> base + (IF i <= nslow THEN 1 ELSE 0)]]

DashDocs == UnusedDocsLimit + 1

\* A registry of DashDocs documents registered on day 0: the first nstale
\* not verified since, the first nunref never referenced, the last narch
\* archived.
DashRegistry(nstale, nunref, narch) ==
    [d \in 1..DashDocs |->
        [NewDocument(d) EXCEPT
            !.added_date = 0,
            !.last_updated = 0,
            !.last_verified = IF d <= nstale THEN 0 ELSE today,
            !.times_referenced = IF d <= nunref THEN 0 ELSE 1,
            !.status = IF d > DashDocs - narch THEN "archived" ELSE "active",
            !.archived_date = IF d > DashDocs - narch THEN <<today>> ELSE <<>>]]

\* A user store of n users: the first ninactive deactivated, the last
\* nqueried with one query each.
DashUsers(n, ninactive, nqueried) ==
    [u \in 1..n |->
        [NewUser(u, "employee") EXCEPT
            !.created_date = 0,
            !.status = IF u <= ninactive THEN "inactive" ELSE "active",
            !.deactivated_date = IF u <= ninactive THEN <<today>> ELSE <<>>,
            !.query_count = IF u > n - nqueried THEN 1 ELSE 0,
            !.last_active = IF u > n - nqueried THEN <<today>> ELSE <<>>]]

(***************************************************************************)
(* SpecDash: a log, a registry and a user store as the three components    *)
(* load them, more than StaleDays days after the registry was filled; then *)
(* generate_executive_summary.                                             *)
(***************************************************************************)
InitDash ==
    /\ enable_audit = TRUE
    /\ indexed = {}
    /\ RagIdle
    /\ logExists = TRUE
    /\ today = StaleDays + 1
    /\ \E n \in 0..MaxEntries :
           \E ns \in 0..n, nslow \in 0..n, base \in {SlowResponse - 1, SlowResponse} :
               \* an average that is no tie of round(avg, 2): which way
               \* Python rounds a tie depends on the float next to it
               /\ 2 * nslow # n
               /\ log = DashLog(n, ns, nslow, base)
    /\ ret = NoRet
    /\ \E nstale \in {0, StaleDocsLimit, StaleDocsLimit + 1},
          nunref \in {0, UnusedDocsLimit, UnusedDocsLimit + 1},
          narch \in 0..1 :
           registry = DashRegistry(nstale, nunref, narch)
    /\ \E n \in 0..MaxDashUsers :
           \E ninactive \in 0..n, nqueried \in 0..n :
               users = DashUsers(n, ninactive, nqueried)
    /\ ChunkIdle
    /\ OtherIdle

NextDash == \E d \in 1..MaxDays : GenerateExecutiveSummary(d)

SpecDash == InitDash /\ [][NextDash]_vars

(***************************************************************************)
(* Claims about RAGSystem.query, checked under Spec.                       *)
(***************************************************************************)
QueryDone == pc = "idle" /\ calls > 0
EntryWritten == QueryDone /\ obs.log_attempted /\ ~obs.log_failed
LastEntry == log[Len(log)]
ResponseFields == {"question", "answer", "sources", "model", "num_sources"}

\* C1 (as stated): every call to query appends exactly one audit entry, so
\* after n completed calls the log holds n entries more than the (empty) log
\* the orchestrator started with.
C1_Original == pc = "idle" => Len(log) = calls

\* C1 (amended): a call to query on an orchestrator with auditing enabled
\* whose audit write succeeds appends exactly one entry, at its last step,
\* whether retrieval or generation succeeded or failed; a call with auditing
\* disabled, or whose audit write fails, appends none.
C1_ExactlyOneEntry ==
    /\ pc # "idle" => Len(log) = obs.len_at_call
    /\ QueryDone =>
          Len(log) = obs.len_at_call
                       + (IF enable_audit /\ ~obs.log_failed THEN 1 ELSE 0)

C1_Witness ==
    /\ QueryDone
    /\ enable_audit
    /\ obs.retrieval_failed
    /\ calls = 2
    /\ Len(log) = 2
    /\ log[1].answer_generated

\* C2: when the generation backend fails, the returned answer contains the
\* error text, num_sources is the number of retrieved chunks, and the audit
\* entry written for the query has answer_generated = false.
C2_GenerationFailure ==
    (QueryDone /\ obs.generation_failed) =>
        /\ Contains(response.answer, obs.gen_error[1])
        /\ response.num_sources = Len(context_docs)
        /\ EntryWritten => LastEntry.answer_generated = FALSE

\* C3: when retrieval fails, generation is not invoked, the response has no
\* sources, num_sources = 0 and an answer carrying the error text, and the
\* audit entry written for the query has sources_retrieved = [],
\* num_sources = 0, answer_generated = false and error = the captured text.
C3_RetrievalFailure ==
    obs.retrieval_failed =>
        /\ obs.gen_calls = 0
        /\ response.sources = <<>>
        /\ response.num_sources = 0
        /\ Contains(response.answer, obs.retr_error[1])
        /\ EntryWritten =>
              /\ LastEntry.sources_retrieved = <<>>
              /\ LastEntry.num_sources = 0
              /\ LastEntry.answer_generated = FALSE
              /\ LastEntry.error = obs.retr_error

C3_Witness ==
    /\ EntryWritten
    /\ obs.retrieval_failed
    /\ obs.retr_error = <<"connection refused">>
    /\ ret.kind = "return"
    /\ indexed # {}

\* C4 (as stated): query always returns the response structure and never
\* raises, whatever succeeds or fails among retrieval, generation and the
\* audit-log write.
C4_Original ==
    QueryDone => ret.kind = "return" /\ DOMAIN ret.val = ResponseFields

\* C4 (amended): query returns the response structure and raises nothing for
\* every combination of success or failure of retrieval and generation as
\* long as the audit-log write does not fail; when the audit-log write fails,
\* the exception of log_query leaves query.
C4_ReturnsUnlessLogFails ==
    QueryDone =>
        IF obs.log_failed
        THEN ret.kind = "raise"
        ELSE /\ ret.kind = "return"
             /\ ret.val = response
             /\ DOMAIN ret.val = ResponseFields

C4_Witness ==
    /\ QueryDone
    /\ obs.retrieval_failed
    /\ ret.kind = "return"
    /\ calls = 2
    /\ log # <<>>
    /\ log[1].error = <<>>

\* C5: with auditing enabled, no response is returned for a query whose
\* audit entry was not appended: a failed audit write is not swallowed.
C5_NoResponseWithoutEntry ==
    (ret.op = "query" /\ ret.kind = "return" /\ enable_audit) =>
        /\ Len(log) = obs.len_at_call + 1
        /\ LastEntry.query = question
        /\ LastEntry.user_id = user_id

C5_Witness ==
    /\ QueryDone
    /\ obs.log_failed
    /\ ret.kind = "raise"
    /\ Len(log) = obs.len_at_call

\* C21: every source of a query response carries a preview of at most 200
\* characters, whatever the length of the retrieved chunk.
C21_PreviewBound ==
    response # NoResponse =>
        \A i \in 1..Len(response.sources) :
            response.sources[i].preview_len <= PreviewMax

\* C22: a query whose retrieval returns zero chunks does not short-circuit:
\* the prompt is built with an empty context, the generation backend is
\* invoked exactly once, the response has num_sources = 0 and no sources, and
\* the audit entry written for the query has zero sources.
ZeroChunks ==
    /\ pc \in {"prompting", "generating", "logging"} \/ QueryDone
    /\ ~obs.retrieval_failed
    /\ context_docs = <<>>

StepOrder ==
    { <<"idle", "retrieving">>, <<"retrieving", "prompting">>,
      <<"prompting", "generating">>, <<"generating", "logging">>,
      <<"retrieving", "logging">>, <<"logging", "idle">> }

OrderedSteps ==
    /\ pc' # pc => <<pc, pc'>> \in StepOrder
    /\ (pc = "retrieving" /\ pc' = "logging") => obs'.retrieval_failed
    /\ obs'.gen_calls > obs.gen_calls =>
          /\ pc = "generating"
          /\ ~obs.retrieval_failed
          /\ prompt = <<build_prompt(question, context_docs, context_metadata)>>
    /\ log' # log =>
          /\ pc = "logging" /\ pc' = "idle"
          /\ obs.retrieval_failed \/ obs.gen_calls = 1
    /\ ret' # ret => (pc = "idle" /\ pc' = "retrieving")
                       \/ (pc = "logging" /\ pc' = "idle")

\* C23 (as stated): within one query the steps happen in the order retrieve,
\* build prompt, generate, log; the backend is not invoked before retrieval
\* has returned, the audit entry is written only after retrieval and
\* generation have finished or failed, logging is the last step, and every
\* started query ends with its audit entry written.
C23_Original ==
    /\ [][OrderedSteps]_vars
    /\ (pc = "retrieving") ~> EntryWritten

\* C23 (amended): the same order, and every started query reaches the logging
\* step and ends there; the entry is written in that step when auditing is
\* enabled and the append succeeds.
C23_StepOrder ==
    /\ [][OrderedSteps]_vars
    /\ (pc = "retrieving") ~> (pc = "logging")
    /\ (pc = "logging") ~> QueryDone
    /\ (pc = "logging" /\ enable_audit) ~> (QueryDone /\ obs.log_attempted)

C23_Witness ==
    /\ EntryWritten
    /\ ~obs.retrieval_failed
    /\ obs.gen_calls = 1
    /\ Len(context_docs) = 2
    /\ calls = 2
    /\ log[1].error # <<>>

C9_AppendOnly == [][IsPrefix(log, log')]_vars

C9_Witness ==
    /\ ret.op = "AuditLogger"
    /\ Len(log) = 2
    /\ registry["a.pdf"].times_referenced > 0
    /\ users["EMP0001"].query_count > 0

\* C10: for a log of N entries of which S have answer_generated = true,
\* get_statistics reports total_queries = N and success_rate = S/N up to the
\* rounding to two decimals, for every log and every window length.
SuccessfulIn(file) == Cardinality({i \in 1..Len(file) : file[i].answer_generated})

C10_Statistics ==
    (ret.op = "get_statistics" /\ Len(log) > 0) =>
        /\ ret.kind = "return"
        /\ ret.val.total_queries = Len(log)
        /\ "success_rate" \in DOMAIN ret.val
        /\ 2 * (ret.val.success_rate * Len(log) - 100 * SuccessfulIn(log)) <= Len(log)
        /\ 2 * (100 * SuccessfulIn(log) - ret.val.success_rate * Len(log)) <= Len(log)

\* C11: when no log entry falls in the requested window (date >= today - days),
\* get_statistics returns the no-data result: total_queries = 0, a message
\* and no success_rate; it raises nothing, even with days = 0.
C11_NoData ==
    [][(/\ ret' # ret
        /\ ret'.op = "get_statistics"
        /\ \A i \in 1..Len(log) : log[i].date < today - ret'.days)
       => /\ ret'.kind = "return"
          /\ ret'.val.total_queries = 0
          /\ ret'.val.period_days = ret'.days
          /\ "message" \in DOMAIN ret'.val
          /\ "success_rate" \notin DOMAIN ret'.val]_vars

\* get_statistics(days = 0) has answered "no data" over a log that has
\* entries, all of them older than the window.
C11_Witness ==
    /\ ret.op = "get_statistics"
    /\ ret.days = 0
    /\ ret.kind = "return"
    /\ ret.val.total_queries = 0
    /\ Len(log) > 0
    /\ \A i \in 1..Len(log) : log[i].date < today

\* C30: get_statistics returns and raises nothing, for every days >= 0 and
\* every log; days = 0 with queries logged today does not fail in the
\* division that gives queries_per_day.
C30_StatisticsTotal ==
    ret.op = "get_statistics" =>
        /\ ret.kind = "return"
        /\ "total_queries" \in DOMAIN ret.val
        /\ ret.val.total_queries > 0 => "queries_per_day" \in DOMAIN ret.val

\* a is b with some of its elements left out.
RECURSIVE IsSubSeq(_, _)
IsSubSeq(a, b) ==
    IF a = <<>> THEN TRUE
    ELSE IF b = <<>> THEN FALSE
    ELSE IF Head(a) = Head(b) THEN IsSubSeq(Tail(a), Tail(b))
    ELSE IsSubSeq(a, Tail(b))

\* C26: get_logs and search_queries return at most `limit` entries for every
\* limit >= 0, limit = 0 included; every returned entry satisfies the filter
\* (the keyword), and the entries come in the order of the log.
C26_LimitRespected ==
    /\ ret.op = "get_logs" =>
          LET f == ret.val.filter
              out == ret.val.logs
          IN  /\ f.limit # <<>> => Len(out) <= f.limit[1]
              /\ IsSubSeq(out, log)
              /\ \A i \in 1..Len(out) :
                    /\ f.user_id # "" => out[i].user_id = f.user_id
                    /\ f.start_date # <<>> => out[i].date >= f.start_date[1]
                    /\ f.end_date # <<>> => out[i].date <= f.end_date[1]
    /\ ret.op = "search_queries" =>
          LET out == ret.val.logs
          IN  /\ Len(out) <= ret.val.limit
              /\ IsSubSeq(out, log)
              /\ \A i \in 1..Len(out) :
                    IsSubstring(Lower(ret.val.keyword), Lower(out[i].query))

(***************************************************************************)
(* Claims about the DocumentRegistry, checked under SpecRegistry.          *)
(***************************************************************************)
\* C12: register_document with a document_id that is already registered
\* leaves the whole registry as it was: the entry keeps every field and no
\* entry is added, whatever the arguments and whether the entry is active or
\* archived.
C12_RegisterIdempotent ==
    [][(/\ ret'.op = "register_document"
        /\ ret'.val.document_id \in DOMAIN registry)
       => registry' = registry]_vars

\* A second register_document, with other arguments, has returned on an
\* archived entry that has been referenced.
C12_Witness ==
    /\ ret.op = "register_document"
    /\ ret.val.warned
    /\ LET e == registry[ret.val.document_id]
       IN  /\ e.status = "archived"
           /\ e.times_referenced > 0
           /\ e.classification # ret.val.args.classification
           /\ e.version # ret.val.args.version

\* C13: no operation of the registry makes an archived document active
\* again (or removes it).
C13_ArchivedIsTerminal ==
    [][\A d \in DOMAIN registry :
          registry[d].status = "archived" =>
              d \in DOMAIN registry' /\ registry'[d].status = "archived"]_vars

\* update_version has run on an archived document whose counter a sync wrote.
C13_Witness ==
    /\ ret.op = "update_version"
    /\ ret.val.document_id \in DOMAIN registry
    /\ LET e == registry[ret.val.document_id]
       IN  /\ e.status = "archived"
           /\ e.version = "2.0"
           /\ e.times_referenced > MaxRefs

\* C14: no operation other than sync_with_audit_logs decreases a registered
\* document's times_referenced; update_reference_count in particular.
C14_CounterMonotone ==
    [][ret'.op # "registry_sync" =>
          \A d \in DOMAIN registry :
              registry'[d].times_referenced >= registry[d].times_referenced]_vars

\* C15: after sync_with_audit_logs the times_referenced of every registered
\* document is the number of occurrences of its id in the sources_retrieved
\* of the log's entries, 0 for a document that does not occur.
C15_FullResync ==
    ret.op = "registry_sync" =>
        \A d \in DOMAIN registry :
            registry[d].times_referenced = Occurrences(log, d)

(***************************************************************************)
(* Claims about instances sharing a registry file, checked under           *)
(* SpecShared.                                                             *)
(***************************************************************************)
\* A saved mutation of document d that the file no longer shows: d is not in
\* the file, or the file shows d as it was before it was archived.
Lost(m) ==
    \/ m.document_id \notin DOMAIN registry
    \/ m.op = "archive" /\ registry[m.document_id].status # "archived"

\* C25: two instances on one file, no locking: each save writes the saving
\* instance's whole in-memory copy over the file, so after a save the file is
\* that copy and nothing else, and a constructed instance's copy changes only
\* by that instance's own operations, never by what the other one saved; a
\* mutation saved earlier by the other instance is then gone from the file
\* (the lost update, C25_Witness).
C25_LastSaveWins ==
    /\ [](rsaved # <<>> => registry = rmem[rsaved[Len(rsaved)].by][1])
    /\ [][\A i \in Registries :
             (rmem[i] # <<>> /\ rmem'[i] # rmem[i]) => ret'.val.by = i]_vars

\* Both registrations were saved and returned; the file holds only the one
\* saved last.
C25_Witness ==
    /\ Len(rsaved) >= 2
    /\ rsaved[1].by # rsaved[2].by
    /\ rsaved[1].op = "register"
    /\ Lost(rsaved[1])
    /\ rsaved[2].document_id \in DOMAIN registry

(***************************************************************************)
(* Claims about the AccessControlSystem, checked under SpecAccess.         *)
(***************************************************************************)
\* The permission is not granted by the role's bundle: absent, or False.
NotInBundle(role, permission) ==
    \/ permission \notin DOMAIN role_permissions[role]
    \/ role_permissions[role][permission] = PyBool(FALSE)

C17_RoleDeterminesPermissions ==
    /\ [](\A u \in DOMAIN users :
              /\ users[u].role \in DOMAIN role_permissions
              /\ users[u].permissions = role_permissions[users[u].role])
    /\ [][ret'.op = "change_role" =>
            LET u == ret'.val.user_id
            IN  /\ ret'.val.result =
                      (u \in DOMAIN users /\ ret'.val.new_role \in DOMAIN role_permissions)
                /\ ret'.val.result =>
                      /\ users'[u].role = ret'.val.new_role
                      /\ users'[u].permissions = role_permissions[ret'.val.new_role]
                /\ ~ret'.val.result => users' = users]_vars

\* change_role has given a user the admin role and bundle, next to a trainer
\* it left alone.
C17_Witness ==
    /\ ret.op = "change_role"
    /\ ret.val.result
    /\ ret.val.new_role = "admin"
    /\ users[ret.val.user_id].permissions.access_level = PyStr("full")
    /\ \E v \in DOMAIN users : v # ret.val.user_id /\ users[v].role = "trainer"

(***************************************************************************)
(* Claims about RAGSystem.batch_query, checked under SpecBatch.            *)
(***************************************************************************)
\* The queries of the current batch that have returned.
BatchDone ==
    Len(results) + (IF pc = "idle" /\ ret.op = "query" /\ ret.kind = "return"
                    THEN 1 ELSE 0)

\* The log ends with the entries of the first n questions of the batch, in
\* the order of the questions.
LogEndsWithBatch(n) ==
    /\ Len(log) >= n
    /\ \A i \in 1..n :
          /\ log[Len(log) - n + i].query = questions[i]
          /\ log[Len(log) - n + i].user_id = batch_user

\* C18: batch_query handles its questions one after the other: while the
\* query for a question runs (from the start of its retrieval on), the audit
\* entries of all earlier questions of the batch are the last entries of the
\* log, in question order; the list kept and returned holds one response per
\* question handled, in question order.
C18_BatchSequential ==
    /\ bpc = "loop" =>
          /\ Len(results) <= Len(questions)
          /\ \A i \in 1..Len(results) : results[i].question = questions[i]
          /\ enable_audit => LogEndsWithBatch(BatchDone)
    /\ (ret.op = "batch_query" /\ ret.kind = "return") =>
          /\ Len(ret.val.results) = Len(questions)
          /\ \A i \in 1..Len(questions) : ret.val.results[i].question = questions[i]
          /\ enable_audit => LogEndsWithBatch(Len(questions))

\* A batch of two different questions has returned its two responses and
\* the log holds their two entries.
C18_Witness ==
    /\ ret.op = "batch_query"
    /\ ret.kind = "return"
    /\ Len(ret.val.results) = 2
    /\ questions[1] # questions[2]
    /\ Len(log) = 2
    /\ ret.val.results[1].num_sources # ret.val.results[2].num_sources

(***************************************************************************)
(* Claims about concurrent appends, checked under SpecWriters.             *)
(***************************************************************************)
\* How often the line e occurs in the file.
CopiesIn(file, e) == Cardinality({i \in 1..Len(file) : file[i] = e})

\* C19: with the log_query calls of several instances interleaved, the log
\* holds exactly one complete line per log_query call that has returned: as
\* many lines as calls, and every call's line as often as it was written;
\* none is lost, overwritten or merged with another.
C19_NoLostAppend ==
    /\ Len(log) = Len(written)
    /\ \A i \in 1..Len(written) :
          CopiesIn(log, written[i]) = CopiesIn(written, written[i])

\* Both instances opened the file while it was empty, then both wrote: the
\* second write landed after the first.
C19_Witness ==
    /\ \A w \in Writers : wpc[w] = "idle" /\ wline[w] # NoLine /\ wline[w].pos = 0
    /\ Len(log) = 2
    /\ log[1].user_id # log[2].user_id

(***************************************************************************)
(* Claims about construction on a shared log, checked under SpecCtor.      *)
(***************************************************************************)
\* C27: constructing an AuditLogger never removes entries: however the
\* existence check and the creating open of one instance interleave with the
\* construction and the log_query calls of another, every entry appended so
\* far is still in the log.
C27_ConstructionKeepsEntries ==
    \A i \in 1..Len(written) : CopiesIn(log, written[i]) >= 1

(***************************************************************************)
(* Claims about the dashboard, checked under SpecDash.                     *)
(***************************************************************************)
\* The entries of the log in the window of the last summary.
SummaryWindow == get_logs(log, "", <<today - ret.days>>, <<>>, <<>>)

\* The sum of the response times of the entries of file.
ResponseTimeSum(file) ==
    LET total[i \in 0..Len(file)] ==
            IF i = 0 THEN 0 ELSE total[i - 1] + file[i].response_time_seconds
    IN  total[Len(file)]

\* How often the summary's alert list holds the alert.
AlertCount(severity, message) ==
    Cardinality({i \in 1..Len(ret.val.alerts) :
                    ret.val.alerts[i] = Alert(severity, message)})

\* 1 when the threshold is crossed, 0 otherwise.
Crossed(condition) == IF condition THEN 1 ELSE 0

\* C20: generate_executive_summary returns an alert list that holds each
\* alert once when its threshold is crossed and not at all otherwise: average
\* response time of the window above 30 s, success rate of the window below
\* 90%, more than 10 stale documents, more than 20 active documents never
\* referenced, fewer than half of the active users having queried (none
\* active counts as engagement 0); with an empty window neither of the
\* first two.
C20_Alerts ==
    ret.op = "generate_executive_summary" =>
        LET n == Len(SummaryWindow)
            active == {u \in DOMAIN users : users[u].status = "active"}
            engaged == {u \in active : users[u].query_count # 0}
        IN  /\ ret.kind = "return"
            /\ AlertCount("warning", "Avg response time high") =
                   Crossed(n > 0 /\ ResponseTimeSum(SummaryWindow) > SlowResponse * n)
            /\ AlertCount("critical", "Low success rate") =
                   Crossed(n > 0 /\ 100 * SuccessfulIn(SummaryWindow) < MinSuccessRate * n)
            /\ AlertCount("warning", "documents need verification") =
                   Crossed(Cardinality(get_stale_documents(registry, StaleDays))
                               > StaleDocsLimit)
            /\ AlertCount("info", "documents never referenced") =
                   Crossed(Cardinality({d \in DOMAIN registry :
                                           /\ registry[d].status = "active"
                                           /\ registry[d].times_referenced = 0})
                               > UnusedDocsLimit)
            /\ AlertCount("warning", "Low user engagement") =
                   Crossed(2 * Cardinality(engaged) < Cardinality(active)
                           \/ active = {})

(***************************************************************************)
(* Claims about chunk_text, checked under SpecChunk.                       *)
(***************************************************************************)
\* C6: every chunk has at most chunk_size tokens, except a chunk made of one
\* single paragraph or sentence that alone exceeds chunk_size; in particular
\* a chunk re-seeded with the previous chunk's last paragraph plus the next
\* paragraph stays within chunk_size.
C6_ChunkSizeBound ==
    cpc = "done" =>
        \A i \in 1..Len(chunks) :
            \/ ContentTokens(chunks[i].units, chunks[i].join) <= chunk_size
            \/ Len(chunks[i].units) = 1 /\ chunks[i].units[1].tok > chunk_size

\* The units a text consists of, in order: its non-empty paragraphs, an
\* oversized paragraph replaced by its non-empty sentences.
RECURSIVE SentenceUnits(_, _, _)
SentenceUnits(p, para, i) ==
    IF i > Len(para) THEN <<>>
    ELSE IF para[i] = 0 THEN SentenceUnits(p, para, i + 1)
    ELSE <<Unit(p, i, para[i])>> \o SentenceUnits(p, para, i + 1)

RECURSIVE UnitsOf(_, _)
UnitsOf(paras, p) ==
    IF p > Len(paras) THEN <<>>
    ELSE (IF ParaEmpty(paras[p]) THEN <<>>
          ELSE IF ParaTokens(paras[p]) > chunk_size
          THEN SentenceUnits(p, paras[p], 1)
          ELSE <<Unit(p, 0, ParaTokens(paras[p]))>>)
         \o UnitsOf(paras, p + 1)

\* The chunks read in order, the carried-over first unit of a chunk skipped.
RECURSIVE ReadChunks(_, _)
ReadChunks(cs, i) ==
    IF i > Len(cs) THEN <<>>
    ELSE (IF i > 1 /\ cs[i].units[1] = cs[i - 1].units[Len(cs[i - 1].units)]
          THEN Tail(cs[i].units)
          ELSE cs[i].units)
         \o ReadChunks(cs, i + 1)

\* C7: every non-empty paragraph (and every non-empty sentence of a paragraph
\* split by the sentence fallback) is in some chunk, and the chunks read in
\* order, overlaps skipped, give the original sequence with nothing dropped.
C7_Coverage ==
    cpc = "done" =>
        /\ \A i \in 1..Len(chunks) : chunks[i].units # <<>>
        /\ ReadChunks(chunks, 1) = UnitsOf(SplitParagraphs(text), 1)

C7_Witness ==
    /\ cpc = "done"
    /\ \E i \in 1..Len(chunks) : chunks[i].flush = "overflow"
    /\ \E i \in 1..Len(chunks) : chunks[i].flush = "presplit"
    /\ \E i \in 1..Len(chunks) : chunks[i].flush = "sentence"

C24_SentenceFallback ==
    cpc = "done" =>
        \A i \in 1..Len(chunks) :
            \A k \in 1..Len(chunks[i].units) :
                LET u == chunks[i].units[k]
                IN  u.s > 0 =>
                      /\ \A j \in 1..Len(chunks) :
                            j # i => ~(\E m \in 1..Len(chunks[j].units) :
                                          chunks[j].units[m] = u)
                      /\ \A m \in 1..Len(chunks[i].units) :
                            chunks[i].units[m].p >= u.p
                      /\ ~(/\ i > 1
                           /\ chunks[i].units[1].p # u.p
                           /\ chunks[i].units[1] =
                                 chunks[i - 1].units[Len(chunks[i - 1].units)])

(***************************************************************************)
(* Claims about process_documents, checked under SpecDocs.                 *)
(***************************************************************************)
\* The chunks of the document at index i among those returned.
ChunksOfDoc(i) ==
    SelectSeq(all_chunks, LAMBDA c : c.metadata.doc_index = i)

\* C28: the chunks one process_documents call returns have pairwise distinct
\* chunk_id values, for every list of documents, documents sharing a filename
\* or title included; and the n chunks of one document have chunk_index
\* 0..n-1 in order and total_chunks = n.
C28_DistinctChunkIds ==
    cpc = "done" =>
        /\ \A a, b \in 1..Len(all_chunks) :
              a # b => all_chunks[a].metadata.chunk_id # all_chunks[b].metadata.chunk_id
        /\ \A i \in 0..(Len(documents) - 1) :
              \A k \in 1..Len(ChunksOfDoc(i)) :
                  /\ ChunksOfDoc(i)[k].metadata.chunk_index = k - 1
                  /\ ChunksOfDoc(i)[k].metadata.total_chunks = Len(ChunksOfDoc(i))

====
